---- MODULE Spec2Model ----
(***************************************************************************)
(* Vehicle telematics firmware: the telemetry record buffer                *)
(* (middleware/circular_buffer.c) at the granularity of its individual     *)
(* atomic loads, stores and fetch-add / fetch-sub operations.              *)
(*                                                                         *)
(* Every task that calls into the buffer has a program counter pc[t] and   *)
(* the locals of the call in flight loc[t].  One action of the model is    *)
(* one shared-memory access of the C code together with the local          *)
(* computation that follows it up to the next shared-memory access.        *)
(***************************************************************************)
EXTENDS Integers, Sequences, FiniteSets, TLC

(***************************************************************************)
(* Bounds of the model.                                                    *)
(***************************************************************************)
\* config.h:51 sets the capacity to 2048 records; the model keeps the
\* algorithm and scales the capacity down.
TELEMETRY_BUFFER_SIZE == 2

\* Number of CircularBuffer_Push calls a behaviour may start.
MaxPush == 4

\* Concurrent consumers start no further pop once this many records were
\* taken out (after count has wrapped they could pop for ever).
MaxPop == 3

\* Number of pushes of a behaviour with two consumers: enough to fill the
\* buffer and evict.
MaxMultiPush == 3

\* Largest max_count handed to CircularBuffer_PopBatch.
MaxBatch == 3

\* milliseconds the clock is followed for
MaxTime == 3

\* can_driver.c:14-15 has room for 16 RX callbacks; the model keeps the
\* algorithm and scales the table down.
RxCallbackSlots == 2

\* The fields are uint32_t.  TLC's integers are 32-bit signed, so the word is
\* modelled 30 bits wide: what matters is that 0 - 1 wraps to the largest
\* value of the word, far above TELEMETRY_BUFFER_SIZE.
UINT32_MOD == 2^30

U32(x) == x % UINT32_MOD

Min(a, b) == IF a <= b THEN a ELSE b

(***************************************************************************)
(* StatusCode_t (telemetry_types.h)                                        *)
(***************************************************************************)
STATUS_OK == "STATUS_OK"
STATUS_ERROR == "STATUS_ERROR"
STATUS_INVALID_PARAM == "STATUS_INVALID_PARAM"
STATUS_NO_DATA == "STATUS_NO_DATA"
STATUS_BUFFER_FULL == "STATUS_BUFFER_FULL"
STATUS_NOT_INITIALIZED == "STATUS_NOT_INITIALIZED"

(***************************************************************************)
(* TelemetryRecord_t: the bytes that precede the integrity code (body, one  *)
(* byte standing for the thirty of the C struct) and the trailing crc16.   *)
(* memcpy moves them in that order and is not atomic.                      *)
(***************************************************************************)
ZeroRecord == [body |-> 0, crc16 |-> 0]

Slots == 0 .. (TELEMETRY_BUFFER_SIZE - 1)

(***************************************************************************)
(* Tasks: the startup thread (System_Init and a sequential caller), the    *)
(* acquisition task (producer), the transmission task (consumer) and one   *)
(* more consumer.                                                          *)
(***************************************************************************)
Tasks == {"main", "acq", "tx", "tx2"}

VARIABLES
    records,        \* CircularBuffer_t.records
    write_index,    \* CircularBuffer_t.write_index
    read_index,     \* CircularBuffer_t.read_index
    count,          \* CircularBuffer_t.count
    overflow_count, \* CircularBuffer_t.overflow_count
    initialized,    \* CircularBuffer_t.initialized
    pc,             \* position of every task inside the call it is running
    loc,            \* the locals of the call every task is running
    ret,            \* what the last finished call of every task returned
    pre,            \* what the sequential caller's call in flight (or last call)
                    \* found: the buffer, and the call before it
    pushes,         \* number of CircularBuffer_Push calls started
    popped,         \* records handed out by successful pops, in return order
    \* power_manager.c:17-50, the statics of the power manager
    power_initialized,
    current_mode,
    previous_mode,
    mode_entry_time,
    time_active_ms,
    time_idle_ms,
    time_sleep_ms,
    cumulative_energy_mah,   \* kept in EnergyUnit, see below
    last_energy_update_time,
    wake_callbacks,
    peripheral_configs,
    \* what surrounds the power manager
    now_ms,         \* the time that has really passed since reset, in ms
    applied,        \* per peripheral, the flag its power-state function last got:
                    \* <<flag>>, or <<>> while it has not been called
    invoked,        \* the power-state functions invoked by the call in flight
                    \* (or the last call), in order
    pm_pc,          \* position of the task that drives the power manager
    pm_loc,         \* the locals of Power_SetMode
    pm_ret,         \* what its last finished call returned
    pm_pre,         \* the power manager as the call in flight (or the last call)
                    \* found it, and the call before
    stats_out,      \* what the last Power_GetStatistics stored behind its pointers
    \* gps_driver.c:25-29, the statics of the GPS driver the parser works on
    current_gps_data,
    gps_initialized,
    gps_has_fix,
    last_fix_timestamp,
    data_callback,
    \* what surrounds the parser
    gps_data,       \* the GPSData_t of the caller that GPS_ParseNMEA fills
    nmea_arg,       \* the arguments the last GPS_ParseNMEA was called with
    nmea_ret,       \* the status it returned
    published,      \* the fixes data_callback was invoked with by the last call
    \* the task that reads the position (main.c:242-251)
    position_pc,    \* 0 outside GPS_GetPosition; inside, the number of the field
                    \* of GPSData_t its memcpy copies next
    position_out,   \* the GPSData_t of the task that GPS_GetPosition fills
    position_ret,   \* what its last finished call returned: <<status>>, or <<>>
    \* main.c:403-419, Calculate_CRC16 and its caller
    crc_arg,        \* the bytes Calculate_CRC16 is called with
    crc_ret,        \* the code it returned: <<code>>, or <<>> before the first call
    \* main.c:208-268, SensorAcquisitionTask
    acq_pc,         \* the statement of its loop the task executes next
    record,         \* its local TelemetryRecord_t
    \* can_driver.c:14-17, the statics of the CAN driver that hold the listeners
    can_initialized,
    rx_callbacks,
    filter_ids,
    callback_count,
    can_invoked,    \* the callbacks the last CAN_IRQHandler invoked, in order
    \* gps_driver.c:30-31, the statics of the receive interrupt
    nmea_buffer,    \* the characters of nmea_buffer below nmea_index
    nmea_index,
    \* what surrounds the receive interrupt
    uart_tx,        \* the line the receiver is sending and how much of it is sent
    uart_rx         \* the byte received last, and the bytes received on this line
                    \* from its most recent '$' on

bufVars == <<records, write_index, read_index, count, overflow_count, initialized>>

\* everything on the buffer's side
bufferSide == <<records, write_index, read_index, count, overflow_count, initialized,
                pc, loc, ret, pre, pushes, popped>>

pmStatics == <<power_initialized, current_mode, previous_mode, mode_entry_time,
               time_active_ms, time_idle_ms, time_sleep_ms, cumulative_energy_mah,
               last_energy_update_time, wake_callbacks, peripheral_configs>>

\* everything on the power manager's side
powerSide == <<pmStatics, now_ms, applied, invoked, pm_pc, pm_loc, pm_ret, pm_pre,
               stats_out>>

gpsStatics == <<current_gps_data, gps_initialized, gps_has_fix, last_fix_timestamp,
                data_callback>>

\* everything on the GPS driver's side
positionReader == <<position_pc, position_out, position_ret>>

\* the receive interrupt and the line it is fed from
uartSide == <<nmea_buffer, nmea_index, uart_tx, uart_rx>>

gpsSide == <<gpsStatics, gps_data, nmea_arg, nmea_ret, published, positionReader,
             uartSide>>

\* everything on the side of main.c
mainSide == <<crc_arg, crc_ret, acq_pc, record>>

\* everything on the CAN driver's side
canSide == <<can_initialized, rx_callbacks, filter_ids, callback_count, can_invoked>>

vars == <<bufferSide, powerSide, gpsSide, mainSide, canSide>>

\* steps is the number of steps the task has taken in the call it is running
LocIdle ==
    [rec |-> ZeroRecord, current_count |-> 0, idx |-> 0, offset |-> 0,
     max_count |-> 0, n |-> 0, out |-> <<>>, batch |-> FALSE, steps |-> 0]

\* What a finished call leaves with its caller: the call and its argument
\* (offset or max_count), the status, the record behind the out-pointer, and
\* for CircularBuffer_PopBatch the number returned and the array filled.
NoReturn ==
    [op |-> "none", arg |-> 0, status |-> "none", rec |-> ZeroRecord, n |-> 0, out |-> <<>>]

Snapshot ==
    [records |-> records, write_index |-> write_index, read_index |-> read_index,
     count |-> count, overflow_count |-> overflow_count, initialized |-> initialized]

\* A static CircularBuffer_t before CircularBuffer_Init: zeroed storage.
BufferZeroed ==
    /\ records = [s \in Slots |-> ZeroRecord]
    /\ write_index = 0
    /\ read_index = 0
    /\ count = 0
    /\ overflow_count = 0

(***************************************************************************)
(* The power manager (power_manager.c)                                     *)
(***************************************************************************)
\* telemetry_types.h:163-167  PowerMode_t
POWER_MODE_ACTIVE == 0
POWER_MODE_IDLE == 1
POWER_MODE_DEEP_SLEEP == 2

PowerModes == {POWER_MODE_ACTIVE, POWER_MODE_IDLE, POWER_MODE_DEEP_SLEEP}

\* power_manager.c:38  peripheral_configs[3], and the test of line 230
POWER_MODE_COUNT == 3

\* power_manager.c:35  wake_callbacks[5], and the test of line 159
WAKE_SOURCE_COUNT == 5

WakeSources == 0 .. (WAKE_SOURCE_COUNT - 1)

\* a null pointer argument
NULL == "NULL"

\* power_manager.h:27-33  PeripheralState_t
Peripherals == {"can", "gps", "cellular", "lorawan", "flash"}

PeripheralState(can, gps, cellular, lorawan, flash) ==
    [can_enabled |-> can, gps_enabled |-> gps, cellular_enabled |-> cellular,
     lorawan_enabled |-> lorawan, flash_enabled |-> flash]

\* the flag of one peripheral in a PeripheralState_t
EnabledIn(states, p) ==
    CASE p = "can" -> states.can_enabled
      [] p = "gps" -> states.gps_enabled
      [] p = "cellular" -> states.cellular_enabled
      [] p = "lorawan" -> states.lorawan_enabled
      [] p = "flash" -> states.flash_enabled

\* power_manager.c:38-50, the initialiser of peripheral_configs
DefaultPeripheralConfigs ==
    [m \in PowerModes |->
        CASE m = POWER_MODE_ACTIVE -> PeripheralState(TRUE, TRUE, TRUE, TRUE, TRUE)
          [] m = POWER_MODE_IDLE -> PeripheralState(TRUE, FALSE, FALSE, FALSE, FALSE)
          [] m = POWER_MODE_DEEP_SLEEP -> PeripheralState(FALSE, FALSE, FALSE, FALSE, FALSE)]

\* config.h:63-65.  CURRENT_DEEP_SLEEP_UA is 2.5f: currents are kept in
\* tenths of a microampere, so that every one of them is a whole number.
CURRENT_ACTIVE_MA == 45
CURRENT_IDLE_MA == 8
CURRENT_DEEP_SLEEP_TENTH_UA == 25

\* tenths of a microampere in a milliampere
TenthUaPerMa == 10 * 1000

\* cumulative_energy_mah is kept in tenths of a microampere times
\* milliseconds: line 288 divides mA * ms by 3600000.0f, so EnergyUnit of
\* these make one mAh.  Rounding of the float is left out.
EnergyUnit == TenthUaPerMa * 3600000

\* power_manager.c:96, 198, 280 (and 70, 194):
\*     uint32_t current_time = 0; // TODO: Get current system time
\* The statement that stands where the clock is to be read reads no clock.
CurrentTimeRead == 0

PmLocIdle == [mode |-> POWER_MODE_ACTIVE, current_time |-> 0, time_in_mode |-> 0]

\* a pointer to a PeripheralState_t: the empty sequence is the null pointer,
\* a sequence of one the pointer to what it holds
NullStates == <<>>

\* what a finished call leaves with the driving task: the call, its
\* arguments, its status (for Power_GetEnergyConsumption, its value), and
\* the time it returned at
PmNoReturn ==
    [op |-> "none", mode |-> 0, source |-> 0, callback |-> NULL, states |-> NullStates,
     status |-> "none", energy |-> 0, at |-> 0]

\* what Power_GetStatistics stores behind its three pointers, with the time
\* of the call and where the driving task stood; none has been made yet
NoStatistics ==
    [active_time_ms |-> 0, idle_time_ms |-> 0, sleep_time_ms |-> 0,
     at |-> 0, during |-> "none"]

\* the statics of the power manager, and what the peripherals were last told
PowerSnapshot ==
    [power_initialized |-> power_initialized, current_mode |-> current_mode,
     previous_mode |-> previous_mode, mode_entry_time |-> mode_entry_time,
     time_active_ms |-> time_active_ms, time_idle_ms |-> time_idle_ms,
     time_sleep_ms |-> time_sleep_ms, cumulative_energy_mah |-> cumulative_energy_mah,
     last_energy_update_time |-> last_energy_update_time,
     wake_callbacks |-> wake_callbacks, peripheral_configs |-> peripheral_configs,
     applied |-> applied, now_ms |-> now_ms]

\* power_manager.c:17-50: the statics as the program image holds them.  The
\* clock starts with the power manager; no power-state function has run.
PowerAtReset ==
    /\ power_initialized = FALSE
    /\ current_mode = POWER_MODE_ACTIVE
    /\ previous_mode = POWER_MODE_ACTIVE
    /\ mode_entry_time = 0
    /\ time_active_ms = 0
    /\ time_idle_ms = 0
    /\ time_sleep_ms = 0
    /\ cumulative_energy_mah = 0
    /\ last_energy_update_time = 0
    /\ wake_callbacks = [w \in WakeSources |-> NULL]
    /\ peripheral_configs = DefaultPeripheralConfigs
    /\ now_ms = 0
    /\ applied = [p \in Peripherals |-> <<>>]
    /\ invoked = <<>>
    /\ pm_pc = "idle"
    /\ pm_loc = PmLocIdle
    /\ pm_ret = PmNoReturn
    /\ pm_pre = [now |-> PowerSnapshot, last |-> PmNoReturn, last_at |-> 0]
    /\ stats_out = NoStatistics

(***************************************************************************)
(* The GPS driver (gps_driver.c)                                           *)
(***************************************************************************)
\* telemetry_types.h:72-81  GPSData_t after memset(.., 0, ..).  latitude and
\* longitude are kept in millionths of a degree, altitude in ten-thousandths
\* of a metre.
ZeroGpsData ==
    [latitude |-> 0, longitude |-> 0, altitude |-> 0, satellites |-> 0,
     fix_quality |-> 0, timestamp |-> 0, hdop |-> 0, valid |-> FALSE]

\* a pointer to a sentence: the empty sequence is the null pointer, a
\* sequence of one the pointer to the characters it holds
NullSentence == <<>>

\* gps_driver.c:25-29: the statics as the program image holds them (init is
\* FALSE), and gps_driver.c:47-72: the statics once System_Init (main.c:111)
\* has called GPS_Init (init is TRUE).  The caller's GPSData_t starts zeroed.
GpsStatics(init) ==
    /\ current_gps_data = ZeroGpsData
    /\ gps_initialized = init
    /\ gps_has_fix = FALSE
    /\ last_fix_timestamp = 0
    /\ data_callback = NULL
    /\ gps_data = ZeroGpsData
    /\ nmea_arg = [sentence |-> NullSentence, data |-> FALSE]
    /\ nmea_ret = "none"
    /\ published = <<>>
    /\ position_pc = 0
    /\ position_out = ZeroGpsData
    /\ position_ret = <<>>
    /\ nmea_buffer = <<>>
    /\ nmea_index = 0
    /\ uart_tx = [line |-> 0, sent |-> 0]
    /\ uart_rx = [byte |-> "\n", since |-> <<>>]

\* can_driver.c:14-17: the statics as the program image holds them (init is
\* FALSE), and can_driver.c:33-57: once System_Init (main.c:102) has called
\* CAN_Init (init is TRUE).  No interrupt has been served.
CanStatics(init) ==
    /\ can_initialized = init
    /\ rx_callbacks = [i \in 0 .. RxCallbackSlots - 1 |-> NULL]
    /\ filter_ids = [i \in 0 .. RxCallbackSlots - 1 |-> 0]
    /\ callback_count = 0
    /\ can_invoked = <<>>

\* telemetry_types.h:39-51, all bytes zero
ZeroTelemetry ==
    [timestamp |-> 0, speed |-> 0, battery_voltage |-> 0, latitude |-> 0,
     longitude |-> 0, altitude |-> 0, gps_satellites |-> 0, gps_fix_quality |-> 0,
     flags |-> 0, reserved |-> 0, crc16 |-> 0]

\* main.c:216-219: the acquisition task is about to create its first record
\* (what its stack holds before is never read)
AcquisitionAtStart ==
    /\ acq_pc = "create"
    /\ record = ZeroTelemetry

\* Calculate_CRC16 has not been called yet.
MainAtReset ==
    /\ crc_arg = <<>>
    /\ crc_ret = <<>>
    /\ AcquisitionAtStart

TasksIdle ==
    /\ pc = [t \in Tasks |-> "idle"]
    /\ loc = [t \in Tasks |-> LocIdle]
    /\ ret = [t \in Tasks |-> NoReturn]
    /\ pushes = 0
    /\ popped = <<>>

\* The state at program start: nothing has initialised the buffer yet.
InitSeq ==
    /\ BufferZeroed
    /\ initialized = FALSE
    /\ TasksIdle
    /\ pre = [buf |-> Snapshot, last |-> NoReturn, last_count |-> 0]
    /\ PowerAtReset
    /\ GpsStatics(FALSE)
    /\ CanStatics(FALSE)
    /\ MainAtReset

\* The state when the scheduler starts the tasks: System_Init has called
\* CircularBuffer_Init and GPS_Init.
InitConc ==
    /\ BufferZeroed
    /\ initialized = TRUE
    /\ TasksIdle
    /\ pre = [buf |-> Snapshot, last |-> NoReturn, last_count |-> 0]
    /\ PowerAtReset
    /\ GpsStatics(TRUE)
    /\ CanStatics(TRUE)
    /\ MainAtReset

(***************************************************************************)
(* Returning from a call: the locals die, the result is kept.  No call of   *)
(* the buffer touches the power manager or the GPS driver.  The            *)
(* acquisition task that called from its push statement (main.c:257) goes   *)
(* on to the statement after it.                                           *)
(***************************************************************************)
Return(t, op, arg, status, rec, n, out) ==
    /\ pc' = [pc EXCEPT ![t] = "idle"]
    /\ loc' = [loc EXCEPT ![t] = LocIdle]
    /\ ret' = [ret EXCEPT ![t] = [op |-> op, arg |-> arg, status |-> status,
                                  rec |-> rec, n |-> n, out |-> out]]
    /\ acq_pc' = IF t = "acq" /\ acq_pc = "push" THEN "report" ELSE acq_pc
    /\ UNCHANGED <<powerSide, gpsSide, crc_arg, crc_ret, record, canSide>>

\* Entering a call: what the sequential caller finds is recorded, the buffer
\* and the result of its previous call with the count that call had found.
Enter(t) ==
    pre' = IF t = "main"
              THEN [buf |-> Snapshot, last |-> ret[t], last_count |-> pre.buf.count]
              ELSE pre

Goto(t, label, newloc) ==
    /\ pc' = [pc EXCEPT ![t] = label]
    /\ loc' = [loc EXCEPT ![t] = [newloc EXCEPT !.steps = loc[t].steps + 1]]
    /\ UNCHANGED ret
    /\ UNCHANGED <<powerSide, gpsSide, mainSide, canSide>>


(***************************************************************************)
(* The conditions and index computations of circular_buffer.c              *)
(***************************************************************************)
\* Mutant of PushIsFull: the test for full is off by one.
PushIsFull_OffByOne(current_count) == current_count > TELEMETRY_BUFFER_SIZE

\* circular_buffer.c:53  if (current_count >= TELEMETRY_BUFFER_SIZE)
PushIsFull(current_count) == current_count >= TELEMETRY_BUFFER_SIZE

\* circular_buffer.c:93  if (current_count == 0)
PopIsEmpty(current_count) == current_count = 0

\* Mutant of PeekOutOfRange: the offset equal to count is let through.
PeekOutOfRange_OffByOne(offset, current_count) == offset > current_count

\* circular_buffer.c:122  if (offset >= current_count)
PeekOutOfRange(offset, current_count) == offset >= current_count

\* circular_buffer.c:59, 73, 102  (idx + 1) % TELEMETRY_BUFFER_SIZE
NextIndex(idx) == (idx + 1) % TELEMETRY_BUFFER_SIZE

\* Mutant of PeekIndex: the offset is not added.
PeekIndex_NoOffset(read_idx, offset) == read_idx % TELEMETRY_BUFFER_SIZE

\* circular_buffer.c:128  (read_idx + offset) % TELEMETRY_BUFFER_SIZE
PeekIndex(read_idx, offset) == U32(read_idx + offset) % TELEMETRY_BUFFER_SIZE

\* Mutant of BatchContinues: the loop runs once more.
BatchContinues_OffByOne(i, max_count) == i <= max_count

\* the loop test of CircularBuffer_PopBatch without its i < max_count
BatchContinues_Unbounded(i, max_count) == TRUE

\* circular_buffer.c:205  for (...; i < max_count; i++)
BatchContinues(i, max_count) == i < max_count

\* Mutant of NotInitialized: the flag is not looked at.
NotInitialized_Unchecked == FALSE

\* circular_buffer.c:47, 87, 116, 174, 200  if (!buffer->initialized)
NotInitialized == ~initialized

(***************************************************************************)
(* CircularBuffer_Init: memset and the stores, run by the startup thread   *)
(* before any task exists.                                                 *)
(***************************************************************************)
CircularBuffer_Init(t) ==
    /\ pc[t] = "idle"
    /\ Enter(t)
    /\ records' = [s \in Slots |-> ZeroRecord]
    /\ write_index' = 0
    /\ read_index' = 0
    /\ count' = 0
    /\ overflow_count' = 0
    /\ initialized' = TRUE
    /\ Return(t, "init", 0, STATUS_OK, ZeroRecord, 0, <<>>)
    /\ UNCHANGED <<pushes, popped>>

(***************************************************************************)
(* CircularBuffer_Push                                                     *)
(***************************************************************************)
\* lines 42-49: the call and the parameter / initialized checks
Push_Call(t, r) ==
    /\ pc[t] = "idle"
    /\ Enter(t)
    /\ pushes < MaxPush
    /\ pushes' = pushes + 1
    /\ IF NotInitialized
          THEN Return(t, "push", 0, STATUS_NOT_INITIALIZED, r, 0, <<>>)
          ELSE Goto(t, "push_load_count", [LocIdle EXCEPT !.rec = r])
    /\ UNCHANGED <<bufVars, popped>>

\* lines 52-53: current_count = ATOMIC_LOAD(count) and the test for full
Push_LoadCount(t) ==
    /\ pc[t] = "push_load_count"
    /\ UNCHANGED pre
    /\ Goto(t, IF PushIsFull(count) THEN "push_inc_overflow" ELSE "push_load_write",
            [loc[t] EXCEPT !.current_count = count])
    /\ UNCHANGED <<bufVars, pushes, popped>>

\* line 55: ATOMIC_INCREMENT(overflow_count)
Push_IncOverflow(t) ==
    /\ pc[t] = "push_inc_overflow"
    /\ UNCHANGED pre
    /\ overflow_count' = U32(overflow_count + 1)
    /\ Goto(t, "push_load_read", loc[t])
    /\ UNCHANGED <<records, write_index, read_index, count, initialized, pushes, popped>>

\* line 58: old_read = ATOMIC_LOAD(read_index)
Push_LoadRead(t) ==
    /\ pc[t] = "push_load_read"
    /\ UNCHANGED pre
    /\ Goto(t, "push_store_read", [loc[t] EXCEPT !.idx = read_index])
    /\ UNCHANGED <<bufVars, pushes, popped>>

\* Mutant of Push_StoreRead: the eviction does not advance read_index.
Push_StoreRead_NoAdvance(t) ==
    /\ pc[t] = "push_store_read"
    /\ UNCHANGED pre
    /\ Goto(t, "push_dec_count", loc[t])
    /\ UNCHANGED <<bufVars, pushes, popped>>

\* lines 59-60: ATOMIC_STORE(read_index, (old_read + 1) % N)
Push_StoreRead(t) ==
    /\ pc[t] = "push_store_read"
    /\ UNCHANGED pre
    /\ read_index' = NextIndex(loc[t].idx)
    /\ Goto(t, "push_dec_count", loc[t])
    /\ UNCHANGED <<records, write_index, count, overflow_count, initialized, pushes, popped>>

\* line 63: __atomic_fetch_sub(&count, 1)
Push_DecCount(t) ==
    /\ pc[t] = "push_dec_count"
    /\ UNCHANGED pre
    /\ count' = U32(count - 1)
    /\ Goto(t, "push_load_write", loc[t])
    /\ UNCHANGED <<records, write_index, read_index, overflow_count, initialized, pushes, popped>>

\* line 69: write_idx = ATOMIC_LOAD(write_index)
Push_LoadWrite(t) ==
    /\ pc[t] = "push_load_write"
    /\ UNCHANGED pre
    /\ Goto(t, "push_copy_body", [loc[t] EXCEPT !.idx = write_index])
    /\ UNCHANGED <<bufVars, pushes, popped>>

\* line 70: memcpy into records[write_idx], the bytes before the crc16
Push_CopyBody(t) ==
    /\ pc[t] = "push_copy_body"
    /\ UNCHANGED pre
    /\ records' = [records EXCEPT ![loc[t].idx].body = loc[t].rec.body]
    /\ Goto(t, "push_copy_crc", loc[t])
    /\ UNCHANGED <<write_index, read_index, count, overflow_count, initialized, pushes, popped>>

\* Mutant of Push_CopyCrc: memcpy stops short of the crc16 bytes.
Push_CopyCrc_Short(t) ==
    /\ pc[t] = "push_copy_crc"
    /\ UNCHANGED pre
    /\ Goto(t, "push_store_write", loc[t])
    /\ UNCHANGED <<bufVars, pushes, popped>>

\* line 70: memcpy into records[write_idx], the crc16 bytes
Push_CopyCrc(t) ==
    /\ pc[t] = "push_copy_crc"
    /\ UNCHANGED pre
    /\ records' = [records EXCEPT ![loc[t].idx].crc16 = loc[t].rec.crc16]
    /\ Goto(t, "push_store_write", loc[t])
    /\ UNCHANGED <<write_index, read_index, count, overflow_count, initialized, pushes, popped>>

\* lines 73-74: ATOMIC_STORE(write_index, (write_idx + 1) % N)
Push_StoreWrite(t) ==
    /\ pc[t] = "push_store_write"
    /\ UNCHANGED pre
    /\ write_index' = NextIndex(loc[t].idx)
    /\ Goto(t, "push_inc_count", loc[t])
    /\ UNCHANGED <<records, read_index, count, overflow_count, initialized, pushes, popped>>

\* The status CircularBuffer_Push returns once the record is stored (line 79).
PushStatus(current_count) == STATUS_OK

\* lines 77-79: ATOMIC_INCREMENT(count); return STATUS_OK
Push_IncCount(t) ==
    /\ pc[t] = "push_inc_count"
    /\ UNCHANGED pre
    /\ count' = U32(count + 1)
    /\ Return(t, "push", 0, PushStatus(loc[t].current_count), loc[t].rec, 0, <<>>)
    /\ UNCHANGED <<records, write_index, read_index, overflow_count, initialized, pushes, popped>>

(***************************************************************************)
(* CircularBuffer_Pop, alone or as the body of CircularBuffer_PopBatch's   *)
(* loop (loc[t].batch).                                                    *)
(***************************************************************************)
\* lines 82-89: the call and the parameter / initialized checks
Pop_Call(t) ==
    /\ pc[t] = "idle"
    /\ Enter(t)
    /\ IF NotInitialized
          THEN Return(t, "pop", 0, STATUS_NOT_INITIALIZED, ZeroRecord, 0, <<>>)
          ELSE Goto(t, "pop_load_count", LocIdle)
    /\ UNCHANGED <<bufVars, pushes, popped>>

\* lines 195-206: max_count == 0 and !initialized return 0; otherwise the
\* loop starts with count = 0 and calls CircularBuffer_Pop(&records[0])
PopBatch_Call(t, max_count) ==
    /\ pc[t] = "idle"
    /\ Enter(t)
    /\ IF max_count = 0 \/ NotInitialized
          THEN Return(t, "pop_batch", max_count, "none", ZeroRecord, 0, <<>>)
          ELSE Goto(t, "pop_load_count",
                    [LocIdle EXCEPT !.batch = TRUE, !.max_count = max_count])
    /\ UNCHANGED <<bufVars, pushes, popped>>

\* lines 92-95: current_count = ATOMIC_LOAD(count); empty returns
\* STATUS_NO_DATA, which ends the batch loop (lines 206-212: break, return count)
Pop_LoadCount(t) ==
    /\ pc[t] = "pop_load_count"
    /\ UNCHANGED pre
    /\ IF PopIsEmpty(count)
          THEN IF loc[t].batch
                  THEN Return(t, "pop_batch", loc[t].max_count, "none", ZeroRecord, loc[t].n, loc[t].out)
                  ELSE Return(t, "pop", 0, STATUS_NO_DATA, loc[t].rec, 0, <<>>)
          ELSE Goto(t, "pop_load_read", [loc[t] EXCEPT !.current_count = count])
    /\ UNCHANGED <<bufVars, pushes, popped>>

\* line 98: read_idx = ATOMIC_LOAD(read_index)
Pop_LoadRead(t) ==
    /\ pc[t] = "pop_load_read"
    /\ UNCHANGED pre
    /\ Goto(t, "pop_copy_body", [loc[t] EXCEPT !.idx = read_index])
    /\ UNCHANGED <<bufVars, pushes, popped>>

\* line 99: memcpy out of records[read_idx], the bytes before the crc16
Pop_CopyBody(t) ==
    /\ pc[t] = "pop_copy_body"
    /\ UNCHANGED pre
    /\ Goto(t, "pop_copy_crc",
            [loc[t] EXCEPT !.rec.body = records[loc[t].idx].body])
    /\ UNCHANGED <<bufVars, pushes, popped>>

\* line 99: memcpy out of records[read_idx], the crc16 bytes
Pop_CopyCrc(t) ==
    /\ pc[t] = "pop_copy_crc"
    /\ UNCHANGED pre
    /\ Goto(t, "pop_store_read",
            [loc[t] EXCEPT !.rec.crc16 = records[loc[t].idx].crc16])
    /\ UNCHANGED <<bufVars, pushes, popped>>

\* lines 102-103: ATOMIC_STORE(read_index, (read_idx + 1) % N)
Pop_StoreRead(t) ==
    /\ pc[t] = "pop_store_read"
    /\ UNCHANGED pre
    /\ read_index' = NextIndex(loc[t].idx)
    /\ Goto(t, "pop_dec_count", loc[t])
    /\ UNCHANGED <<records, write_index, count, overflow_count, initialized, pushes, popped>>

\* lines 106-108: __atomic_fetch_sub(&count, 1); return STATUS_OK.  Inside
\* CircularBuffer_PopBatch (lines 205-212) count++ and i++ follow, and the
\* loop either pops into the next element of the array or returns count.
Pop_DecCount(t) ==
    /\ pc[t] = "pop_dec_count"
    /\ UNCHANGED pre
    /\ count' = U32(count - 1)
    /\ popped' = Append(popped, loc[t].rec)
    /\ IF loc[t].batch
          THEN IF BatchContinues(loc[t].n + 1, loc[t].max_count)
                  THEN Goto(t, "pop_load_count",
                            [loc[t] EXCEPT !.n = @ + 1,
                                           !.out = Append(@, loc[t].rec),
                                           !.rec = ZeroRecord,
                                           !.current_count = 0,
                                           !.idx = 0])
                  ELSE Return(t, "pop_batch", loc[t].max_count, "none", ZeroRecord,
                              loc[t].n + 1, Append(loc[t].out, loc[t].rec))
          ELSE Return(t, "pop", 0, STATUS_OK, loc[t].rec, 0, <<>>)
    /\ UNCHANGED <<records, write_index, read_index, overflow_count, initialized, pushes>>

(***************************************************************************)
(* CircularBuffer_Peek                                                     *)
(***************************************************************************)
\* lines 111-118: the call and the parameter / initialized checks
Peek_Call(t, offset) ==
    /\ pc[t] = "idle"
    /\ Enter(t)
    /\ IF NotInitialized
          THEN Return(t, "peek", offset, STATUS_NOT_INITIALIZED, ZeroRecord, 0, <<>>)
          ELSE Goto(t, "peek_load_count", [LocIdle EXCEPT !.offset = offset])
    /\ UNCHANGED <<bufVars, pushes, popped>>

\* lines 121-124: current_count = ATOMIC_LOAD(count); offset out of range
Peek_LoadCount(t) ==
    /\ pc[t] = "peek_load_count"
    /\ UNCHANGED pre
    /\ IF PeekOutOfRange(loc[t].offset, count)
          THEN Return(t, "peek", loc[t].offset, STATUS_NO_DATA, loc[t].rec, 0, <<>>)
          ELSE Goto(t, "peek_load_read", [loc[t] EXCEPT !.current_count = count])
    /\ UNCHANGED <<bufVars, pushes, popped>>

\* lines 127-128: read_idx = ATOMIC_LOAD(read_index); peek_idx
Peek_LoadRead(t) ==
    /\ pc[t] = "peek_load_read"
    /\ UNCHANGED pre
    /\ Goto(t, "peek_copy_body",
            [loc[t] EXCEPT !.idx = PeekIndex(read_index, loc[t].offset)])
    /\ UNCHANGED <<bufVars, pushes, popped>>

\* line 131: memcpy out of records[peek_idx], the bytes before the crc16
Peek_CopyBody(t) ==
    /\ pc[t] = "peek_copy_body"
    /\ UNCHANGED pre
    /\ Goto(t, "peek_copy_crc",
            [loc[t] EXCEPT !.rec.body = records[loc[t].idx].body])
    /\ UNCHANGED <<bufVars, pushes, popped>>

\* lines 131-133: memcpy, the crc16 bytes; return STATUS_OK
Peek_CopyCrc(t) ==
    /\ pc[t] = "peek_copy_crc"
    /\ UNCHANGED pre
    /\ Return(t, "peek", loc[t].offset, STATUS_OK,
              [loc[t].rec EXCEPT !.crc16 = records[loc[t].idx].crc16], 0, <<>>)
    /\ UNCHANGED <<bufVars, pushes, popped>>

(***************************************************************************)
(* CircularBuffer_Clear                                                    *)
(***************************************************************************)
\* lines 169-176: the call and the parameter / initialized checks
Clear_Call(t) ==
    /\ pc[t] = "idle"
    /\ Enter(t)
    /\ IF NotInitialized
          THEN Return(t, "clear", 0, STATUS_NOT_INITIALIZED, ZeroRecord, 0, <<>>)
          ELSE Goto(t, "clear_store_write", LocIdle)
    /\ UNCHANGED <<bufVars, pushes, popped>>

\* line 179: ATOMIC_STORE(write_index, 0)
Clear_StoreWrite(t) ==
    /\ pc[t] = "clear_store_write"
    /\ UNCHANGED pre
    /\ write_index' = 0
    /\ Goto(t, "clear_store_read", loc[t])
    /\ UNCHANGED <<records, read_index, count, overflow_count, initialized, pushes, popped>>

\* line 180: ATOMIC_STORE(read_index, 0)
Clear_StoreRead(t) ==
    /\ pc[t] = "clear_store_read"
    /\ UNCHANGED pre
    /\ read_index' = 0
    /\ Goto(t, "clear_store_count", loc[t])
    /\ UNCHANGED <<records, write_index, count, overflow_count, initialized, pushes, popped>>

\* Clear_StoreCount with the store to count left out
Clear_StoreCount_Kept(t) ==
    /\ pc[t] = "clear_store_count"
    /\ UNCHANGED pre
    /\ Return(t, "clear", 0, STATUS_OK, ZeroRecord, 0, <<>>)
    /\ UNCHANGED <<bufVars, pushes, popped>>

\* lines 181-184: ATOMIC_STORE(count, 0); return STATUS_OK
Clear_StoreCount(t) ==
    /\ pc[t] = "clear_store_count"
    /\ UNCHANGED pre
    /\ count' = 0
    /\ Return(t, "clear", 0, STATUS_OK, ZeroRecord, 0, <<>>)
    /\ UNCHANGED <<records, write_index, read_index, overflow_count, initialized, pushes, popped>>

(***************************************************************************)
(* The read-only queries                                                   *)
(***************************************************************************)
\* lines 136-142
CircularBuffer_GetCount == IF NotInitialized THEN 0 ELSE count

\* lines 187-193
CircularBuffer_GetOverflowCount == IF NotInitialized THEN 0 ELSE overflow_count

\* lines 144-150
CircularBuffer_IsFull == IF NotInitialized THEN FALSE ELSE count >= TELEMETRY_BUFFER_SIZE

\* lines 152-158
CircularBuffer_IsEmpty == IF NotInitialized THEN TRUE ELSE count = 0

(***************************************************************************)
(* Calculate_CRC16 (main.c:403-419): CRC-16/CCITT-FALSE, bit by bit.       *)
(***************************************************************************)
\* the operator ^ on two uint8_t (gps_driver.c:335), bit by bit
Xor8(a, b) ==
    ((a + b) % 2)
    + 2 * (((a \div 2) + (b \div 2)) % 2)
    + 4 * (((a \div 4) + (b \div 4)) % 2)
    + 8 * (((a \div 8) + (b \div 8)) % 2)
    + 16 * (((a \div 16) + (b \div 16)) % 2)
    + 32 * (((a \div 32) + (b \div 32)) % 2)
    + 64 * (((a \div 64) + (b \div 64)) % 2)
    + 128 * (((a \div 128) + (b \div 128)) % 2)

\* and on two uint16_t (main.c:408-412)
Xor16(a, b) == 256 * Xor8(a \div 256, b \div 256) + Xor8(a % 256, b % 256)

\* main.c:410-414: one step of the inner loop
CrcShift(crc) ==
    IF crc >= 32768
       THEN Xor16((crc * 2) % 65536, 4129)
       ELSE (crc * 2) % 65536

RECURSIVE CrcShifts(_, _)
CrcShifts(crc, j) == IF j = 0 THEN crc ELSE CrcShifts(CrcShift(crc), j - 1)

\* main.c:408-415: one byte
CrcByte(crc, byte) == CrcShifts(Xor16(crc, (byte * 256) % 65536), 8)

RECURSIVE CrcFrom(_, _)
CrcFrom(crc, data) ==
    \* the test on crc has the register worked out before the next byte is
    \* taken up, as the loop has it; a uint16_t is never negative
    IF crc >= 0 /\ data # <<>> THEN CrcFrom(CrcByte(crc, Head(data)), Tail(data)) ELSE crc

\* Mutant of Calculate_CRC16: the register starts at zero.
Calculate_CRC16_ZeroInit(data) == CrcFrom(0, data)

Calculate_CRC16(data) == CrcFrom(65535, data)

(***************************************************************************)
(* The records CircularBuffer_Push is handed.  The body numbers the        *)
(* samples; its code is set as the acquisition task sets it                *)
(* (main.c:253-257).                                                       *)
(***************************************************************************)
AcquiredRecord == [body |-> pushes + 1, crc16 |-> Calculate_CRC16(<<pushes + 1>>)]

(***************************************************************************)
(* The steps of a call in flight of task t.                                *)
(***************************************************************************)
PushStep(t) ==
    \/ Push_LoadCount(t)
    \/ Push_IncOverflow(t)
    \/ Push_LoadRead(t)
    \/ Push_StoreRead(t)
    \/ Push_DecCount(t)
    \/ Push_LoadWrite(t)
    \/ Push_CopyBody(t)
    \/ Push_CopyCrc(t)
    \/ Push_StoreWrite(t)
    \/ Push_IncCount(t)

PopStep(t) ==
    \/ Pop_LoadCount(t)
    \/ Pop_LoadRead(t)
    \/ Pop_CopyBody(t)
    \/ Pop_CopyCrc(t)
    \/ Pop_StoreRead(t)
    \/ Pop_DecCount(t)

PeekStep(t) ==
    \/ Peek_LoadCount(t)
    \/ Peek_LoadRead(t)
    \/ Peek_CopyBody(t)
    \/ Peek_CopyCrc(t)

ClearStep(t) ==
    \/ Clear_StoreWrite(t)
    \/ Clear_StoreRead(t)
    \/ Clear_StoreCount(t)

\* The positions inside each function.  None of them is the target of a
\* backward jump inside CircularBuffer_Push / Pop / Peek; the only loop is
\* the for of CircularBuffer_PopBatch (lines 205-212) around the pop.
PushLabels ==
    {"push_load_count", "push_inc_overflow", "push_load_read", "push_store_read",
     "push_dec_count", "push_load_write", "push_copy_body", "push_copy_crc",
     "push_store_write", "push_inc_count"}

PopLabels ==
    {"pop_load_count", "pop_load_read", "pop_copy_body", "pop_copy_crc",
     "pop_store_read", "pop_dec_count"}

PeekLabels ==
    {"peek_load_count", "peek_load_read", "peek_copy_body", "peek_copy_crc"}

\* The step of its own that a task inside a call can take next
OwnStep(t) == PushStep(t) \/ PopStep(t) \/ PeekStep(t) \/ ClearStep(t)

(***************************************************************************)
(* Spec: one caller, one call at a time (the startup thread, or a test     *)
(* driver), starting from the buffer before CircularBuffer_Init, which     *)
(* System_Init calls once (main.c:96).                                     *)
(***************************************************************************)
Init == InitSeq

Next ==
    \/ NotInitialized /\ CircularBuffer_Init("main")
    \/ pc["main"] = "idle" /\ pushes < MaxPush /\ Push_Call("main", AcquiredRecord)
    \/ Pop_Call("main")
    \/ \E max_count \in 0 .. MaxBatch : PopBatch_Call("main", max_count)
    \/ \E offset \in 0 .. TELEMETRY_BUFFER_SIZE : Peek_Call("main", offset)
    \/ Clear_Call("main")
    \/ PushStep("main")
    \/ PopStep("main")
    \/ PeekStep("main")
    \/ ClearStep("main")

Spec == Init /\ [][Next]_vars

(***************************************************************************)
(* SpecConc: the acquisition task pushes while the transmission task pops, *)
(* interleaved between any two shared-memory accesses.  The consumer side  *)
(* takes records one at a time or in batches, and may look at the oldest   *)
(* record without taking it (circular_buffer.h:55, 64, 115).               *)
(***************************************************************************)
Producer ==
    \/ pc["acq"] = "idle" /\ pushes < MaxPush /\ Push_Call("acq", AcquiredRecord)
    \/ PushStep("acq")

Consumer(t) ==
    \/ Len(popped) < MaxPop /\ Pop_Call(t)
    \/ Len(popped) < MaxPop /\ PopBatch_Call(t, MaxBatch)
    \/ PopStep(t)
    \/ Peek_Call(t, 0)
    \/ PeekStep(t)

NextConc == Producer \/ Consumer("tx")

SpecConc == InitConc /\ [][NextConc]_vars

(***************************************************************************)
(* SpecMultiConsumer: the same with two consumer tasks calling             *)
(* CircularBuffer_Pop.                                                     *)
(***************************************************************************)
MultiProducer ==
    \/ pc["acq"] = "idle" /\ pushes < MaxMultiPush /\ Push_Call("acq", AcquiredRecord)
    \/ PushStep("acq")

PopConsumer(t) ==
    \/ Len(popped) < MaxPop /\ Pop_Call(t)
    \/ PopStep(t)

NextMultiConsumer == MultiProducer \/ PopConsumer("tx") \/ PopConsumer("tx2")

SpecMultiConsumer == InitConc /\ [][NextMultiConsumer]_vars

(***************************************************************************)
(* The calls of the power manager.  One task drives it; Power_SetMode is   *)
(* split at the statements that store to a static or call into a driver.   *)
(***************************************************************************)
PmReturn(op, mode, source, callback, states, status) ==
    /\ pm_pc' = "idle"
    /\ pm_loc' = PmLocIdle
    /\ pm_ret' = [op |-> op, mode |-> mode, source |-> source, callback |-> callback,
                  states |-> states, status |-> status, energy |-> 0, at |-> now_ms]

\* Entering a call: what it finds is recorded, with the result of the call
\* before it and the time that call was entered at.
PmEnter ==
    /\ pm_pre' = [now |-> PowerSnapshot, last |-> pm_ret, last_at |-> pm_pre.now.now_ms]
    /\ invoked' = <<>>

PmGoto(label, newloc) ==
    /\ pm_pc' = label
    /\ pm_loc' = newloc
    /\ UNCHANGED pm_ret

\* lines 64-84.  Lines 70-72 take 0 for the time of initialisation.
Power_Init ==
    /\ pm_pc = "idle"
    /\ PmEnter
    /\ IF power_initialized
          THEN UNCHANGED <<power_initialized, current_mode, mode_entry_time,
                           last_energy_update_time, time_active_ms, time_idle_ms,
                           time_sleep_ms, cumulative_energy_mah>>
          ELSE /\ current_mode' = POWER_MODE_ACTIVE
               /\ mode_entry_time' = CurrentTimeRead
               /\ last_energy_update_time' = CurrentTimeRead
               /\ time_active_ms' = 0
               /\ time_idle_ms' = 0
               /\ time_sleep_ms' = 0
               /\ cumulative_energy_mah' = 0
               /\ power_initialized' = TRUE
    /\ PmReturn("init", 0, 0, NULL, NullStates, STATUS_OK)
    /\ UNCHANGED <<previous_mode, wake_callbacks, peripheral_configs, now_ms, applied,
                   stats_out, bufferSide, gpsSide, mainSide, canSide>>

\* lines 175-186, in tenths of a microampere
Power_GetCurrentConsumption ==
    CASE current_mode = POWER_MODE_ACTIVE -> CURRENT_ACTIVE_MA * TenthUaPerMa
      [] current_mode = POWER_MODE_IDLE -> CURRENT_IDLE_MA * TenthUaPerMa
      [] current_mode = POWER_MODE_DEEP_SLEEP -> CURRENT_DEEP_SLEEP_TENTH_UA
      [] OTHER -> 0

\* lines 197-200
Power_GetTimeInMode == U32(CurrentTimeRead - mode_entry_time)

\* lines 279-292
Power_UpdateEnergyConsumption ==
    LET current_time == CurrentTimeRead
        elapsed_ms == U32(current_time - last_energy_update_time)
    IN  IF elapsed_ms = 0
           THEN UNCHANGED <<cumulative_energy_mah, last_energy_update_time>>
           ELSE /\ cumulative_energy_mah' =
                       cumulative_energy_mah + Power_GetCurrentConsumption * elapsed_ms
                /\ last_energy_update_time' = current_time

\* lines 86-97: the two early returns, then current_time and time_in_mode
SetMode_Call(mode) ==
    /\ pm_pc = "idle"
    /\ PmEnter
    /\ IF ~power_initialized
          THEN PmReturn("set_mode", mode, 0, NULL, NullStates, STATUS_NOT_INITIALIZED)
          ELSE IF mode = current_mode
                  THEN PmReturn("set_mode", mode, 0, NULL, NullStates, STATUS_OK)
                  ELSE PmGoto("sm_add_dwell",
                              [mode |-> mode,
                               current_time |-> CurrentTimeRead,
                               time_in_mode |-> U32(CurrentTimeRead - mode_entry_time)])
    /\ UNCHANGED <<pmStatics, now_ms, applied, stats_out, bufferSide, gpsSide, mainSide, canSide>>

\* lines 99-109: the switch on current_mode
SetMode_AddDwell ==
    /\ pm_pc = "sm_add_dwell"
    /\ time_active_ms' = IF current_mode = POWER_MODE_ACTIVE
                            THEN U32(time_active_ms + pm_loc.time_in_mode)
                            ELSE time_active_ms
    /\ time_idle_ms' = IF current_mode = POWER_MODE_IDLE
                          THEN U32(time_idle_ms + pm_loc.time_in_mode)
                          ELSE time_idle_ms
    /\ time_sleep_ms' = IF current_mode = POWER_MODE_DEEP_SLEEP
                           THEN U32(time_sleep_ms + pm_loc.time_in_mode)
                           ELSE time_sleep_ms
    /\ PmGoto("sm_update_energy", pm_loc)
    /\ UNCHANGED <<power_initialized, current_mode, previous_mode, mode_entry_time,
                   cumulative_energy_mah, last_energy_update_time, wake_callbacks,
                   peripheral_configs, now_ms, applied, invoked, pm_pre, stats_out,
                   bufferSide, gpsSide, mainSide, canSide>>

\* Power_SetMode with the transition to the new mode moved before the
\* peripheral states and the wake sources
SetMode_UpdateEnergy_ThenMode ==
    /\ pm_pc = "sm_update_energy"
    /\ Power_UpdateEnergyConsumption
    /\ PmGoto("sm_store_previous", pm_loc)
    /\ UNCHANGED <<power_initialized, current_mode, previous_mode, mode_entry_time,
                   time_active_ms, time_idle_ms, time_sleep_ms, wake_callbacks,
                   peripheral_configs, now_ms, applied, invoked, pm_pre, stats_out,
                   bufferSide, gpsSide, mainSide, canSide>>

\* line 112
SetMode_UpdateEnergy ==
    /\ pm_pc = "sm_update_energy"
    /\ Power_UpdateEnergyConsumption
    /\ PmGoto("sm_apply_can", pm_loc)
    /\ UNCHANGED <<power_initialized, current_mode, previous_mode, mode_entry_time,
                   time_active_ms, time_idle_ms, time_sleep_ms, wake_callbacks,
                   peripheral_configs, now_ms, applied, invoked, pm_pre, stats_out,
                   bufferSide, gpsSide, mainSide, canSide>>

\* line 115: &peripheral_configs[mode] without a test of mode; what is read
\* through it when mode is no index of the array is whatever lies there.
StatesRead(mode) ==
    IF mode \in PowerModes
       THEN {peripheral_configs[mode]}
       ELSE {PeripheralState(c, g, FALSE, FALSE, FALSE) : c \in BOOLEAN, g \in BOOLEAN}

\* lines 240-258 with the driver behind it (can_driver.c:176-190,
\* gps_driver.c:179-192): the drivers are initialised by System_Init
\* (main.c:101-114), so the driver function takes the flag and returns STATUS_OK.
Power_SetPeripheralState(component, enable) ==
    /\ applied' = [applied EXCEPT ![component] = <<enable>>]
    /\ invoked' = Append(invoked, <<component, enable>>)

\* lines 115, 274: Power_SetPeripheralState(COMPONENT_CAN, states->can_enabled)
SetMode_ApplyCan ==
    /\ pm_pc = "sm_apply_can"
    /\ \E states \in StatesRead(pm_loc.mode) :
          Power_SetPeripheralState("can", states.can_enabled)
    /\ PmGoto("sm_apply_gps", pm_loc)
    /\ UNCHANGED <<pmStatics, now_ms, pm_pre, stats_out, bufferSide, gpsSide, mainSide, canSide>>

\* lines 275-277: Power_SetPeripheralState(COMPONENT_GPS, states->gps_enabled),
\* and after it the comment "// Apply other peripheral states" and the return
SetMode_ApplyGps ==
    /\ pm_pc = "sm_apply_gps"
    /\ \E states \in StatesRead(pm_loc.mode) :
          Power_SetPeripheralState("gps", states.gps_enabled)
    /\ PmGoto("sm_wake_sources", pm_loc)
    /\ UNCHANGED <<pmStatics, now_ms, pm_pre, stats_out, bufferSide, gpsSide, mainSide, canSide>>

\* lines 118, 294-309: Power_ConfigureWakeSources, a switch with empty cases
SetMode_ConfigureWakeSources ==
    /\ pm_pc = "sm_wake_sources"
    /\ PmGoto("sm_store_previous", pm_loc)
    /\ UNCHANGED <<pmStatics, now_ms, applied, invoked, pm_pre, stats_out, bufferSide, gpsSide, mainSide, canSide>>

\* line 121
SetMode_StorePrevious ==
    /\ pm_pc = "sm_store_previous"
    /\ previous_mode' = current_mode
    /\ PmGoto("sm_store_current", pm_loc)
    /\ UNCHANGED <<power_initialized, current_mode, mode_entry_time, time_active_ms,
                   time_idle_ms, time_sleep_ms, cumulative_energy_mah,
                   last_energy_update_time, wake_callbacks, peripheral_configs,
                   now_ms, applied, invoked, pm_pre, stats_out, bufferSide, gpsSide, mainSide, canSide>>

\* line 122
SetMode_StoreCurrent ==
    /\ pm_pc = "sm_store_current"
    /\ current_mode' = pm_loc.mode
    /\ PmGoto("sm_store_entry_time", pm_loc)
    /\ UNCHANGED <<power_initialized, previous_mode, mode_entry_time, time_active_ms,
                   time_idle_ms, time_sleep_ms, cumulative_energy_mah,
                   last_energy_update_time, wake_callbacks, peripheral_configs,
                   now_ms, applied, invoked, pm_pre, stats_out, bufferSide, gpsSide, mainSide, canSide>>

\* lines 123-147: mode_entry_time = current_time; return STATUS_OK
SetMode_StoreEntryTime ==
    /\ pm_pc = "sm_store_entry_time"
    /\ mode_entry_time' = pm_loc.current_time
    /\ PmReturn("set_mode", pm_loc.mode, 0, NULL, NullStates, STATUS_OK)
    /\ UNCHANGED <<power_initialized, current_mode, previous_mode, time_active_ms,
                   time_idle_ms, time_sleep_ms, cumulative_energy_mah,
                   last_energy_update_time, wake_callbacks, peripheral_configs,
                   now_ms, applied, invoked, pm_pre, stats_out, bufferSide, gpsSide, mainSide, canSide>>

\* Power_RegisterWakeSource without the test for a null callback
RegisterRefused_NullStored(source, callback) ==
    IF ~power_initialized
       THEN STATUS_NOT_INITIALIZED
       ELSE IF source >= WAKE_SOURCE_COUNT THEN STATUS_INVALID_PARAM ELSE STATUS_OK

\* lines 155-161: the status Power_RegisterWakeSource is to return
RegisterRefused(source, callback) ==
    IF ~power_initialized
       THEN STATUS_NOT_INITIALIZED
       ELSE IF source >= WAKE_SOURCE_COUNT \/ callback = NULL
               THEN STATUS_INVALID_PARAM
               ELSE STATUS_OK

\* lines 154-167
Power_RegisterWakeSource(source, callback) ==
    /\ pm_pc = "idle"
    /\ PmEnter
    /\ wake_callbacks' = IF RegisterRefused(source, callback) = STATUS_OK
                            THEN [wake_callbacks EXCEPT ![source] = callback]
                            ELSE wake_callbacks
    /\ PmReturn("register_wake_source", 0, source, callback, NullStates,
                RegisterRefused(source, callback))
    /\ UNCHANGED <<power_initialized, current_mode, previous_mode, mode_entry_time,
                   time_active_ms, time_idle_ms, time_sleep_ms, cumulative_energy_mah,
                   last_energy_update_time, peripheral_configs, now_ms, applied,
                   stats_out, bufferSide, gpsSide, mainSide, canSide>>

\* line 230: mode >= 3 || states == NULL
ConfigureRefused(mode, states) == mode >= POWER_MODE_COUNT \/ states = NullStates

\* lines 229-238
Power_ConfigurePeripherals(mode, states) ==
    /\ pm_pc = "idle"
    /\ PmEnter
    /\ peripheral_configs' = IF ConfigureRefused(mode, states)
                                THEN peripheral_configs
                                ELSE [peripheral_configs EXCEPT ![mode] = states[1]]
    /\ PmReturn("configure_peripherals", mode, 0, NULL, states,
                IF ConfigureRefused(mode, states) THEN STATUS_INVALID_PARAM ELSE STATUS_OK)
    /\ UNCHANGED <<power_initialized, current_mode, previous_mode, mode_entry_time,
                   time_active_ms, time_idle_ms, time_sleep_ms, cumulative_energy_mah,
                   last_energy_update_time, wake_callbacks, now_ms, applied,
                   stats_out, bufferSide, gpsSide, mainSide, canSide>>

\* lines 202-227, called with three pointers that are not null, by a task
\* that may run between any two statements of Power_SetMode
Power_GetStatistics ==
    /\ stats_out' =
          [active_time_ms |-> IF current_mode = POWER_MODE_ACTIVE
                                 THEN U32(time_active_ms + Power_GetTimeInMode)
                                 ELSE time_active_ms,
           idle_time_ms |-> IF current_mode = POWER_MODE_IDLE
                               THEN U32(time_idle_ms + Power_GetTimeInMode)
                               ELSE time_idle_ms,
           sleep_time_ms |-> IF current_mode = POWER_MODE_DEEP_SLEEP
                                THEN U32(time_sleep_ms + Power_GetTimeInMode)
                                ELSE time_sleep_ms,
           at |-> now_ms,
           during |-> pm_pc]
    /\ UNCHANGED <<pmStatics, now_ms, applied, invoked, pm_pc, pm_loc, pm_ret, pm_pre,
                   bufferSide, gpsSide, mainSide, canSide>>

\* lines 188-191
Power_GetEnergyConsumption ==
    /\ pm_pc = "idle"
    /\ PmEnter
    /\ Power_UpdateEnergyConsumption
    /\ pm_pc' = "idle"
    /\ pm_loc' = PmLocIdle
    /\ pm_ret' = [PmNoReturn EXCEPT !.op = "get_energy",
                                    !.status = STATUS_OK,
                                    !.energy = cumulative_energy_mah',
                                    !.at = now_ms]
    /\ UNCHANGED <<power_initialized, current_mode, previous_mode, mode_entry_time,
                   time_active_ms, time_idle_ms, time_sleep_ms, wake_callbacks,
                   peripheral_configs, now_ms, applied, stats_out, bufferSide, gpsSide, mainSide, canSide>>

\* A millisecond passes.
Tick ==
    /\ power_initialized
    /\ now_ms < MaxTime
    /\ now_ms' = now_ms + 1
    /\ UNCHANGED <<pmStatics, applied, invoked, pm_pc, pm_loc, pm_ret, pm_pre,
                   stats_out, bufferSide, gpsSide, mainSide, canSide>>

\* what the driving task passes
ModeArguments == 0 .. POWER_MODE_COUNT

SourceArguments == {0, WAKE_SOURCE_COUNT}

CallbackArguments == {NULL, "OnWake"}

StatesArguments == {NullStates, <<PeripheralState(FALSE, TRUE, TRUE, FALSE, FALSE)>>}

(***************************************************************************)
(* SpecPower: one task drives the power manager through its modes and      *)
(* reads the energy, the clock runs, and another task queries the          *)
(* statistics between any two statements of the driving task.              *)
(***************************************************************************)
NextPower ==
    \/ Power_Init
    \/ \E mode \in PowerModes : SetMode_Call(mode)
    \/ SetMode_AddDwell
    \/ SetMode_UpdateEnergy
    \/ SetMode_ApplyCan
    \/ SetMode_ApplyGps
    \/ SetMode_ConfigureWakeSources
    \/ SetMode_StorePrevious
    \/ SetMode_StoreCurrent
    \/ SetMode_StoreEntryTime
    \/ Power_GetEnergyConsumption
    \/ Power_GetStatistics
    \/ Tick

SpecPower == InitSeq /\ [][NextPower]_vars

(***************************************************************************)
(* SpecPowerConfig: one task configures the power manager and drives it    *)
(* through its modes, one call at a time.                                  *)
(***************************************************************************)
NextPowerConfig ==
    \/ Power_Init
    \/ \E mode \in ModeArguments : SetMode_Call(mode)
    \/ SetMode_AddDwell
    \/ SetMode_UpdateEnergy
    \/ SetMode_ApplyCan
    \/ SetMode_ApplyGps
    \/ SetMode_ConfigureWakeSources
    \/ SetMode_StorePrevious
    \/ SetMode_StoreCurrent
    \/ SetMode_StoreEntryTime
    \/ \E source \in SourceArguments, callback \in CallbackArguments :
          Power_RegisterWakeSource(source, callback)
    \/ \E mode \in {POWER_MODE_IDLE, POWER_MODE_COUNT}, states \in StatesArguments :
          Power_ConfigurePeripherals(mode, states)

SpecPowerConfig == InitSeq /\ [][NextPowerConfig]_vars

(***************************************************************************)
(* The NMEA parser of the GPS driver (gps_driver.c:91-111, 218-366).       *)
(*                                                                         *)
(* A C string is the sequence of its characters before the terminating    *)
(* NUL, each character a string of length one.                             *)
(***************************************************************************)
\* The printable characters in the order of their codes, from ' ' (32) on; the
\* grave accent (96), which no string can hold, is spelled out.
PrintableChars == <<
    " ", "!", "\"", "#", "$", "%", "&", "'", "(", ")", "*", "+",
    ",", "-", ".", "/", "0", "1", "2", "3", "4", "5", "6", "7",
    "8", "9", ":", ";", "<", "=", ">", "?", "@", "A", "B", "C",
    "D", "E", "F", "G", "H", "I", "J", "K", "L", "M", "N", "O",
    "P", "Q", "R", "S", "T", "U", "V", "W", "X", "Y", "Z", "[",
    "\\", "]", "^", "_", "grave", "a", "b", "c", "d", "e", "f", "g",
    "h", "i", "j", "k", "l", "m", "n", "o", "p", "q", "r", "s",
    "t", "u", "v", "w", "x", "y", "z", "{", "|", "}", "~">>

\* the code of a character, what calculated_checksum ^= *p reads
Ascii ==
    [c \in {PrintableChars[i] : i \in 1 .. Len(PrintableChars)} |->
        31 + CHOOSE i \in 1 .. Len(PrintableChars) : PrintableChars[i] = c]

\* the string literal of the source as a C string
UpperHexDigits ==
    <<"0", "1", "2", "3", "4", "5", "6", "7", "8", "9", "A", "B", "C", "D", "E", "F">>

LowerHexDigits ==
    <<"0", "1", "2", "3", "4", "5", "6", "7", "8", "9", "a", "b", "c", "d", "e", "f">>

DecimalDigits == {UpperHexDigits[i] : i \in 1 .. 10}

HexDigits ==
    {UpperHexDigits[i] : i \in 1 .. 16} \cup {LowerHexDigits[i] : i \in 1 .. 16}

\* the value of a hexadecimal digit, either case
HexValue(c) ==
    (CHOOSE i \in 1 .. 16 : UpperHexDigits[i] = c \/ LowerHexDigits[i] = c) - 1

\* s without the white space it starts with, as isspace() of the C locale has it
RECURSIVE SkipSpace(_)
SkipSpace(s) ==
    IF s # <<>> /\ Head(s) \in {" ", "\t", "\n", "\r", "\f"}
       THEN SkipSpace(Tail(s))
       ELSE s

\* the longest run of hexadecimal digits s starts with, at most width long
RECURSIVE HexRun(_, _)
HexRun(s, width) ==
    IF width > 0 /\ s # <<>> /\ Head(s) \in HexDigits
       THEN <<Head(s)>> \o HexRun(Tail(s), width - 1)
       ELSE <<>>

RECURSIVE HexNumber(_)
HexNumber(digits) ==
    IF digits = <<>>
       THEN 0
       ELSE 16 * HexNumber(SubSeq(digits, 1, Len(digits) - 1))
            + HexValue(digits[Len(digits)])

\* gps_driver.c:339-340
\*   uint8_t provided_checksum = 0;
\*   sscanf(checksum_ptr + 1, "%2hhx", &provided_checksum);
\* The conversion skips white space, takes an optional sign as one of its two
\* characters, then the hexadecimal digits that are left of the two; what
\* follows them is not looked at.  A negative number is stored modulo 256.
\* With no digit there is no conversion and provided_checksum keeps its 0.
\* (A "0x" prefix leaves the same value as stopping at the x, the width
\* being two.)
ScanHex2(rest) ==
    LET s == SkipSpace(rest)
        signed == s # <<>> /\ Head(s) \in {"+", "-"}
        run == IF signed THEN HexRun(Tail(s), 1) ELSE HexRun(s, 2)
        v == HexNumber(run)
    IN  IF run = <<>>
           THEN 0
           ELSE IF signed /\ Head(s) = "-" THEN (256 - v) % 256 ELSE v

\* strchr(sentence, '*'): the index of the first '*', 0 for NULL
FirstStar(sentence) ==
    IF \E i \in 1 .. Len(sentence) : sentence[i] = "*"
       THEN CHOOSE i \in 1 .. Len(sentence) :
                /\ sentence[i] = "*"
                /\ \A j \in 1 .. i - 1 : sentence[j] # "*"
       ELSE 0


\* gps_driver.c:333-336: the XOR of the characters of s from index from to
\* index to.  XOR is associative, so the range is folded by halves.
RECURSIVE CalculatedChecksum(_, _, _)
CalculatedChecksum(s, from, to) ==
    IF from > to
       THEN 0
       ELSE IF from = to
               THEN Ascii[s[from]]
               ELSE LET mid == (from + to) \div 2
                    IN  Xor8(CalculatedChecksum(s, from, mid),
                             CalculatedChecksum(s, mid + 1, to))

\* gps_driver.c:322-344
GPS_ValidateChecksum(sentence) ==
    IF sentence = <<>> \/ sentence[1] # "$"
       THEN FALSE
       ELSE LET checksum_ptr == FirstStar(sentence)
            IN  IF checksum_ptr = 0
                   THEN FALSE
                   ELSE CalculatedChecksum(sentence, 2, checksum_ptr - 1)
                        = ScanHex2(SubSeq(sentence, checksum_ptr + 1, Len(sentence)))

\* gps_driver.c:17-18
NMEA_BUFFER_SIZE == 128

NMEA_MAX_TOKENS == 20

\* strtok(.., ","), called until it returns NULL: the tokens of s from index
\* i on.  The delimiters before a token are skipped, so an empty field yields
\* no token; a token runs to the last character before the next comma.
RECURSIVE StrtokAll(_, _)
StrtokAll(s, i) ==
    IF \A j \in i .. Len(s) : s[j] = ","
       THEN <<>>
       ELSE LET start == CHOOSE j \in i .. Len(s) :
                             s[j] # "," /\ \A k \in i .. j - 1 : s[k] = ","
                end == CHOOSE j \in start .. Len(s) :
                           /\ (j = Len(s) \/ s[j + 1] = ",")
                           /\ \A k \in start .. j : s[k] # ","
            IN  <<SubSeq(s, start, end)>> \o StrtokAll(s, end + 2)

\* lines 222-232 and 280-290: strncpy(sentence_copy, sentence,
\* NMEA_BUFFER_SIZE - 1), then the loop, which stops at NMEA_MAX_TOKENS tokens.
\* (A sentence of NMEA_BUFFER_SIZE - 1 characters or more would leave the copy
\* without its terminator; no sentence the model tokenises is that long.)
Tokenize(sentence) ==
    LET sentence_copy == SubSeq(sentence, 1, Min(Len(sentence), NMEA_BUFFER_SIZE - 1))
        all == StrtokAll(sentence_copy, 1)
    IN  SubSeq(all, 1, Min(Len(all), NMEA_MAX_TOKENS))

\* the decimal digits s starts with
RECURSIVE DigitRun(_)
DigitRun(s) ==
    IF s # <<>> /\ Head(s) \in DecimalDigits
       THEN <<Head(s)>> \o DigitRun(Tail(s))
       ELSE <<>>

RECURSIVE DecNumber(_)
DecNumber(digits) ==
    IF digits = <<>>
       THEN 0
       ELSE 10 * DecNumber(SubSeq(digits, 1, Len(digits) - 1))
            + HexValue(digits[Len(digits)])

\* atoi(): white space, an optional sign, the decimal digits that follow
atoi(s) ==
    LET t == SkipSpace(s)
        signed == t # <<>> /\ Head(t) \in {"+", "-"}
        v == DecNumber(DigitRun(IF signed THEN Tail(t) ELSE t))
    IN  IF signed /\ Head(t) = "-" THEN 0 - v ELSE v

\* Real numbers are kept as integers: atof() in ten-thousandths, which holds
\* every digit NMEA minutes carry; degrees in millionths.
AtofScale == 10000

DegreeScale == 1000000

\* the first n digits of a fraction, as if padded with zeros
RECURSIVE FractionDigits(_, _)
FractionDigits(digits, n) ==
    IF n = 0
       THEN 0
       ELSE IF digits = <<>>
               THEN 0
               ELSE HexValue(Head(digits)) * (10 ^ (n - 1))
                    + FractionDigits(Tail(digits), n - 1)

\* atof() of an unsigned decimal number without exponent, the form of the
\* fields of a sentence
atof(s) ==
    LET t == SkipSpace(s)
        whole == DigitRun(t)
        after == SubSeq(t, Len(whole) + 1, Len(t))
        fraction == IF after # <<>> /\ Head(after) = "."
                       THEN DigitRun(Tail(after))
                       ELSE <<>>
    IN  DecNumber(whole) * AtofScale + FractionDigits(fraction, 4)

\* gps_driver.c:352-359 works in float: atof() rounded to 24 bits (at most
\* 2^-10 minutes for a coordinate below 32768, 17 millionths of a degree), the
\* quotient by 60.0f, and the sum rounded to 24 bits (8 millionths of a degree
\* below 256).  The model computes the exact decimal value, cut to a millionth
\* of a degree; the float the code returns lies within this many millionths.
FloatError == 30

GPS_ConvertCoordinate_Unsigned(coord_str, direction) ==
    LET coord == atof(coord_str)
        degrees == coord \div (100 * AtofScale)
        minutes == coord - degrees * 100 * AtofScale
    IN  degrees * DegreeScale + (minutes * (DegreeScale \div AtofScale)) \div 60

\* gps_driver.c:346-366.  A token strtok returned is never NULL nor empty.
GPS_ConvertCoordinate(coord_str, direction) ==
    LET coord == atof(coord_str)
        degrees == coord \div (100 * AtofScale)
        minutes == coord - degrees * 100 * AtofScale
        decimal_degrees ==
            degrees * DegreeScale + (minutes * (DegreeScale \div AtofScale)) \div 60
    IN  IF direction[1] \in {"S", "W"} THEN 0 - decimal_degrees ELSE decimal_degrees

\* What a call leaves behind: its status, the caller's GPSData_t, the statics
\* it may write, and the GPSData_t the callback was invoked with, if it was.
NmeaOutcome(status, data, has_fix, current, stamp, callback_data) ==
    [status |-> status, gps_data |-> data, gps_has_fix |-> has_fix,
     current_gps_data |-> current, last_fix_timestamp |-> stamp,
     published |-> callback_data]

\* into is the GPSData_t gps_data points to, as the call finds it
NmeaUntouched(status, into) ==
    NmeaOutcome(status, into, gps_has_fix, current_gps_data,
                last_fix_timestamp, <<>>)

\* GPS_ParseGPGGA marking the caller's data invalid before it counts the fields
GPS_ParseGPGGA_ShortInvalidates(sentence, into) ==
    LET tokens == Tokenize(sentence)
    IN  IF Len(tokens) < 10
           THEN NmeaOutcome(STATUS_ERROR, [into EXCEPT !.valid = FALSE],
                    FALSE, current_gps_data, last_fix_timestamp, <<>>)
           ELSE LET fix_quality == atoi(tokens[7]) % 256
                IN  IF fix_quality = 0
                       THEN NmeaOutcome(STATUS_OK,
                                [into EXCEPT !.fix_quality = 0, !.valid = FALSE],
                                FALSE, current_gps_data, last_fix_timestamp, <<>>)
                       ELSE LET data ==
                                    [into EXCEPT
                                        !.fix_quality = fix_quality,
                                        !.latitude = GPS_ConvertCoordinate(tokens[3], tokens[4]),
                                        !.longitude = GPS_ConvertCoordinate(tokens[5], tokens[6]),
                                        !.satellites = atoi(tokens[8]) % 256,
                                        !.altitude = atof(tokens[10]),
                                        !.hdop = ((atof(tokens[9]) * 100) \div AtofScale) % 65536,
                                        !.valid = TRUE]
                            IN  NmeaOutcome(STATUS_OK, data, TRUE, data, 0,
                                    IF data_callback # NULL THEN <<data>> ELSE <<>>)

\* gps_driver.c:218-274
GPS_ParseGPGGA(sentence, into) ==
    LET tokens == Tokenize(sentence)
    IN  IF Len(tokens) < 10
           THEN NmeaUntouched(STATUS_ERROR, into)
           ELSE LET fix_quality == atoi(tokens[7]) % 256
                IN  IF fix_quality = 0
                       THEN NmeaOutcome(STATUS_OK,
                                [into EXCEPT !.fix_quality = 0, !.valid = FALSE],
                                FALSE, current_gps_data, last_fix_timestamp, <<>>)
                       ELSE LET data ==
                                    [into EXCEPT
                                        !.fix_quality = fix_quality,
                                        !.latitude = GPS_ConvertCoordinate(tokens[3], tokens[4]),
                                        !.longitude = GPS_ConvertCoordinate(tokens[5], tokens[6]),
                                        !.satellites = atoi(tokens[8]) % 256,
                                        !.altitude = atof(tokens[10]),
                                        !.hdop = ((atof(tokens[9]) * 100) \div AtofScale) % 65536,
                                        !.valid = TRUE]
                            IN  NmeaOutcome(STATUS_OK, data, TRUE, data, 0,
                                    IF data_callback # NULL THEN <<data>> ELSE <<>>)

\* gps_driver.c:276-320
GPS_ParseGPRMC(sentence, into) ==
    LET tokens == Tokenize(sentence)
    IN  IF Len(tokens) < 10
           THEN NmeaUntouched(STATUS_ERROR, into)
           ELSE IF tokens[3][1] # "A"
                   THEN NmeaOutcome(STATUS_OK, [into EXCEPT !.valid = FALSE],
                            FALSE, current_gps_data, last_fix_timestamp, <<>>)
                   ELSE LET data ==
                                [into EXCEPT
                                    !.latitude = GPS_ConvertCoordinate(tokens[4], tokens[5]),
                                    !.longitude = GPS_ConvertCoordinate(tokens[6], tokens[7]),
                                    !.timestamp = U32(atoi(tokens[2])),
                                    !.valid = TRUE]
                        IN  NmeaOutcome(STATUS_OK, data, TRUE, data, 0, <<>>)

\* strncmp(sentence, prefix, 6) == 0
StartsWith(sentence, prefix) ==
    /\ Len(sentence) >= Len(prefix)
    /\ SubSeq(sentence, 1, Len(prefix)) = prefix

\* gps_driver.c:91-111, for a sentence and a GPSData_t that are not NULL
ParseSentence(sentence, into) ==
    IF ~GPS_ValidateChecksum(sentence)
       THEN NmeaUntouched(STATUS_ERROR, into)
       ELSE IF \/ StartsWith(sentence, <<"$", "G", "P", "G", "G", "A">>)
               \/ StartsWith(sentence, <<"$", "G", "N", "G", "G", "A">>)
               THEN GPS_ParseGPGGA(sentence, into)
               ELSE IF \/ StartsWith(sentence, <<"$", "G", "P", "R", "M", "C">>)
                       \/ StartsWith(sentence, <<"$", "G", "N", "R", "M", "C">>)
                       THEN GPS_ParseGPRMC(sentence, into)
                       ELSE NmeaUntouched(STATUS_ERROR, into)

\* the status GPS_ParseNMEA returns for a sentence
ParseStatus(sentence) == ParseSentence(sentence, gps_data).status

\* gps_driver.c:91-111.  sentence is a pointer (NullSentence for NULL), data
\* tells whether the GPSData_t pointer is not NULL.
GPS_ParseNMEA(sentence, data) ==
    /\ nmea_arg' = [sentence |-> sentence, data |-> data]
    /\ \E outcome \in {IF sentence = NullSentence \/ ~data
                            THEN NmeaUntouched(STATUS_INVALID_PARAM, gps_data)
                            ELSE ParseSentence(sentence[1], gps_data)} :
           /\ nmea_ret' = outcome.status
           /\ gps_data' = outcome.gps_data
           /\ gps_has_fix' = outcome.gps_has_fix
           /\ current_gps_data' = outcome.current_gps_data
           /\ last_fix_timestamp' = outcome.last_fix_timestamp
           /\ published' = outcome.published
    /\ UNCHANGED <<gps_initialized, data_callback, positionReader, uartSide,
                   bufferSide, powerSide, mainSide, canSide>>

\* gps_driver.c:134-142: refused, and nothing stored, before GPS_Init
GPS_RegisterCallback(callback) ==
    /\ data_callback' = IF gps_initialized THEN callback ELSE data_callback
    /\ UNCHANGED <<current_gps_data, gps_initialized, gps_has_fix, last_fix_timestamp,
                   gps_data, nmea_arg, nmea_ret, published, positionReader, uartSide,
                   bufferSide, powerSide, mainSide, canSide>>

GPS_TIMEOUT_MS == 3000

GPS_MIN_SATELLITES == 4

\* gps_driver.c:170-177.  The time the function reads is the constant 0
\* (line 175); 0xFFFFFFFF is the largest uint32_t.
GPS_GetTimeSinceLastFix ==
    IF last_fix_timestamp = 0 THEN UINT32_MOD - 1 ELSE U32(0 - last_fix_timestamp)

\* gps_driver.c:144-168, with the same constant for the time (line 150)
GPS_IsHealthy ==
    /\ gps_initialized
    /\ last_fix_timestamp # 0
    /\ ~(U32(0 - last_fix_timestamp) > GPS_TIMEOUT_MS)
    /\ ~(current_gps_data.satellites < GPS_MIN_SATELLITES)

(***************************************************************************)
(* GPS_GetPosition (gps_driver.c:113-128), called by a task.  Nothing       *)
(* keeps the receive interrupt out while it runs: its tests are one step    *)
(* (no interrupt takes back what they found), and its memcpy is one step    *)
(* for every field of GPSData_t, in the order of the structure             *)
(* (telemetry_types.h:72-81).  What the calling task does with its own      *)
(* variables in the same step is the caller's to say.                      *)
(***************************************************************************)
GpsDataFields ==
    <<"latitude", "longitude", "altitude", "satellites", "fix_quality",
      "timestamp", "hdop", "valid">>

\* gps_driver.c:130-132
GPS_HasValidFix == gps_has_fix /\ current_gps_data.valid

\* lines 113-125.  data tells whether the GPSData_t pointer is not NULL.
GetPosition_Call(data) ==
    /\ position_pc = 0
    /\ \E status \in {IF ~gps_initialized THEN STATUS_NOT_INITIALIZED
                       ELSE IF ~data THEN STATUS_INVALID_PARAM
                       ELSE IF ~current_gps_data.valid THEN STATUS_NO_DATA
                       ELSE STATUS_OK} :
           /\ position_pc' = IF status = STATUS_OK THEN 1 ELSE 0
           /\ position_ret' = IF status = STATUS_OK THEN position_ret ELSE <<status>>
    /\ UNCHANGED <<gpsStatics, gps_data, nmea_arg, nmea_ret, published, position_out, uartSide,
                   bufferSide, powerSide, canSide>>

\* lines 126-127: the next field is copied; after the last one the call returns
GetPosition_Copy ==
    /\ position_pc > 0
    /\ position_out' = [position_out EXCEPT ![GpsDataFields[position_pc]] =
                                               current_gps_data[GpsDataFields[position_pc]]]
    /\ position_pc' = IF position_pc = Len(GpsDataFields) THEN 0 ELSE position_pc + 1
    /\ position_ret' = IF position_pc = Len(GpsDataFields) THEN <<STATUS_OK>> ELSE position_ret
    /\ UNCHANGED <<gpsStatics, gps_data, nmea_arg, nmea_ret, published, uartSide,
                   bufferSide, powerSide, canSide>>

(***************************************************************************)
(* The sentences GPS_ParseNMEA is called with.  A body is what stands       *)
(* between '$' and '*'.                                                     *)
(***************************************************************************)
Bodies ==
    [
     \* the example of gps_driver.c:219, checksum 47
     \*   GPGGA,123519,4807.038,N,01131.000,E,1,08,0.9,545.4,M,46.9,M,,
     GgaFix |-> <<
        "G", "P", "G", "G", "A", ",", "1", "2", "3", "5", "1", "9", ",",
        "4", "8", "0", "7", ".", "0", "3", "8", ",", "N", ",", "0", "1",
        "1", "3", "1", ".", "0", "0", "0", ",", "E", ",", "1", ",", "0",
        "8", ",", "0", ".", "9", ",", "5", "4", "5", ".", "4", ",", "M",
        ",", "4", "6", ".", "9", ",", "M", ",", ",">>,
     \* the same fix with a station field that brings the checksum down to one digit, checksum 07
     \*   GPGGA,123519,4807.038,N,01131.000,E,1,08,0.9,545.4,M,46.9,M,,01A
     GgaFixLow |-> <<
        "G", "P", "G", "G", "A", ",", "1", "2", "3", "5", "1", "9", ",",
        "4", "8", "0", "7", ".", "0", "3", "8", ",", "N", ",", "0", "1",
        "1", "3", "1", ".", "0", "0", "0", ",", "E", ",", "1", ",", "0",
        "8", ",", "0", ".", "9", ",", "5", "4", "5", ".", "4", ",", "M",
        ",", "4", "6", ".", "9", ",", "M", ",", ",", "0", "1", "A">>,
     \* the same fix with a station field that brings the checksum to zero, checksum 00
     \*   GPGGA,123519,4807.038,N,01131.000,E,1,08,0.9,545.4,M,46.9,M,,G
     GgaFixZero |-> <<
        "G", "P", "G", "G", "A", ",", "1", "2", "3", "5", "1", "9", ",",
        "4", "8", "0", "7", ".", "0", "3", "8", ",", "N", ",", "0", "1",
        "1", "3", "1", ".", "0", "0", "0", ",", "E", ",", "1", ",", "0",
        "8", ",", "0", ".", "9", ",", "5", "4", "5", ".", "4", ",", "M",
        ",", "4", "6", ".", "9", ",", "M", ",", ",", "G">>,
     \* fix quality 0, checksum 4E
     \*   GPGGA,123519,4807.038,N,01131.000,E,0,00,0.9,545.4,M,46.9,M,,
     GgaNoFix |-> <<
        "G", "P", "G", "G", "A", ",", "1", "2", "3", "5", "1", "9", ",",
        "4", "8", "0", "7", ".", "0", "3", "8", ",", "N", ",", "0", "1",
        "1", "3", "1", ".", "0", "0", "0", ",", "E", ",", "0", ",", "0",
        "0", ",", "0", ".", "9", ",", "5", "4", "5", ".", "4", ",", "M",
        ",", "4", "6", ".", "9", ",", "M", ",", ",">>,
     \* the example of gps_driver.c:277, checksum 6A
     \*   GPRMC,123519,A,4807.038,N,01131.000,E,022.4,084.4,230394,003.1,W
     RmcValid |-> <<
        "G", "P", "R", "M", "C", ",", "1", "2", "3", "5", "1", "9", ",",
        "A", ",", "4", "8", "0", "7", ".", "0", "3", "8", ",", "N", ",",
        "0", "1", "1", "3", "1", ".", "0", "0", "0", ",", "E", ",", "0",
        "2", "2", ".", "4", ",", "0", "8", "4", ".", "4", ",", "2", "3",
        "0", "3", "9", "4", ",", "0", "0", "3", ".", "1", ",", "W">>,
     \* status V, checksum 7D
     \*   GPRMC,123519,V,4807.038,N,01131.000,E,022.4,084.4,230394,003.1,W
     RmcVoid |-> <<
        "G", "P", "R", "M", "C", ",", "1", "2", "3", "5", "1", "9", ",",
        "V", ",", "4", "8", "0", "7", ".", "0", "3", "8", ",", "N", ",",
        "0", "1", "1", "3", "1", ".", "0", "0", "0", ",", "E", ",", "0",
        "2", "2", ".", "4", ",", "0", "8", "4", ".", "4", ",", "2", "3",
        "0", "3", "9", "4", ",", "0", "0", "3", ".", "1", ",", "W">>,
     \* a sentence type the parser does not know, checksum 31
     \*   GPGLL,4916.45,N,12311.12,W,225444,A
     Gll |-> <<
        "G", "P", "G", "L", "L", ",", "4", "9", "1", "6", ".", "4", "5",
        ",", "N", ",", "1", "2", "3", "1", "1", ".", "1", "2", ",", "W",
        ",", "2", "2", "5", "4", "4", "4", ",", "A">>,
     \* eight fields only, checksum 77
     \*   GPGGA,123519,4807.038,N,01131.000,E,1,08
     GgaShort |-> <<
        "G", "P", "G", "G", "A", ",", "1", "2", "3", "5", "1", "9", ",",
        "4", "8", "0", "7", ".", "0", "3", "8", ",", "N", ",", "0", "1",
        "1", "3", "1", ".", "0", "0", "0", ",", "E", ",", "1", ",", "0",
        "8">>,
     \* the fix in the southern and western hemisphere, checksum 48
     \*   GPGGA,123519,4807.038,S,01131.000,W,1,08,0.9,545.4,M,46.9,M,,
     GgaSouthWest |-> <<
        "G", "P", "G", "G", "A", ",", "1", "2", "3", "5", "1", "9", ",",
        "4", "8", "0", "7", ".", "0", "3", "8", ",", "S", ",", "0", "1",
        "1", "3", "1", ".", "0", "0", "0", ",", "W", ",", "1", ",", "0",
        "8", ",", "0", ".", "9", ",", "5", "4", "5", ".", "4", ",", "M",
        ",", "4", "6", ".", "9", ",", "M", ",", ",">>,
     \* fix quality 0 as a receiver without a fix sends it, the fields it does not know left empty, checksum 6B
     \*   GPGGA,123519,,,,,0,00,,,M,,M,,
     GgaNoFixEmpty |-> <<
        "G", "P", "G", "G", "A", ",", "1", "2", "3", "5", "1", "9", ",",
        ",", ",", ",", ",", "0", ",", "0", "0", ",", ",", ",", "M", ",",
        ",", "M", ",", ",">>,
     \* the fix with its time field left empty, checksum 4A
     \*   GPGGA,,4807.038,N,01131.000,E,1,08,0.9,545.4,M,46.9,M,,
     GgaFixNoTime |-> <<
        "G", "P", "G", "G", "A", ",", ",", "4", "8", "0", "7", ".", "0",
        "3", "8", ",", "N", ",", "0", "1", "1", "3", "1", ".", "0", "0",
        "0", ",", "E", ",", "1", ",", "0", "8", ",", "0", ".", "9", ",",
        "5", "4", "5", ".", "4", ",", "M", ",", "4", "6", ".", "9", ",",
        "M", ",", ",">>]

\* the two hexadecimal digits of a byte, as a receiver writes them
HexByte(n) == <<UpperHexDigits[(n \div 16) + 1], UpperHexDigits[(n % 16) + 1]>>

Framed(body, trailer) == <<"$">> \o body \o <<"*">> \o trailer

\* A body as the receiver frames it, and the ways a caller can get the frame
\* wrong: lower-case digits, the checksum of another body, the low digit
\* alone, no digit, a third digit, no '$', no '*'.
Framings(body) ==
    LET sum == CalculatedChecksum(body, 1, Len(body))
        lower == <<LowerHexDigits[(sum \div 16) + 1], LowerHexDigits[(sum % 16) + 1]>>
    IN  {Framed(body, HexByte(sum)),
         Framed(body, lower),
         Framed(body, HexByte(Xor8(sum, 1))),
         Framed(body, <<HexByte(sum)[2]>>),
         Framed(body, <<>>),
         Framed(body, HexByte(sum) \o <<"0">>),
         body \o <<"*">> \o HexByte(sum),
         <<"$">> \o body \o HexByte(sum)}

\* every body as the receiver frames it, and the fixes framed wrongly as well
TestSentences ==
    {Framed(Bodies[name], HexByte(CalculatedChecksum(Bodies[name], 1, Len(Bodies[name])))) :
        name \in DOMAIN Bodies}
    \cup UNION {Framings(Bodies[name]) : name \in {"GgaFix", "GgaFixLow", "GgaFixZero"}}

SentenceArguments == {NullSentence} \cup {<<s>> : s \in TestSentences}

\* The parser is called with every sentence; without a GPSData_t it is called
\* with and without a sentence.  A callback is registered or taken away.
NextNmea ==
    \/ \E sentence \in SentenceArguments : GPS_ParseNMEA(sentence, TRUE)
    \/ \E sentence \in {NullSentence, <<Framed(Bodies.GgaFix, <<"4", "7">>)>>} :
           GPS_ParseNMEA(sentence, FALSE)
    \/ \E callback \in {NULL, "OnGpsData"} : GPS_RegisterCallback(callback)

SpecNmea == InitConc /\ [][NextNmea]_vars

(***************************************************************************)
(* The task that reads the position, and the receive interrupt             *)
(* (GPS_UARTCallback, gps_driver.c:369-392) that hands a finished sentence  *)
(* to GPS_ParseNMEA.  The interrupt runs to its end between any two steps   *)
(* of the task.                                                            *)
(***************************************************************************)
ReceivedSentences ==
    {<<Framed(Bodies[name], HexByte(CalculatedChecksum(Bodies[name], 1, Len(Bodies[name]))))>> :
        name \in {"GgaFix", "GgaSouthWest", "GgaNoFix", "GgaFixLow", "Gll"}}

NextPosition ==
    \/ \E data \in BOOLEAN : GetPosition_Call(data) /\ UNCHANGED <<mainSide, canSide>>
    \/ GetPosition_Copy /\ UNCHANGED <<mainSide, canSide>>
    \/ \E sentence \in ReceivedSentences : GPS_ParseNMEA(sentence, TRUE)

SpecPosition == InitConc /\ [][NextPosition]_vars

(***************************************************************************)
(* The receive interrupt, called with every byte the UART receives          *)
(* (gps_driver.c:369-393).  nmea_buffer holds the characters below          *)
(* nmea_index: a character at or above nmea_index is written before it is   *)
(* read, the parser reading up to the terminator stored at nmea_index.       *)
(***************************************************************************)
\* the byte 0, which no character of a sentence is
Nul == "NUL"

\* a buffer read as a C string: the characters before its first byte 0
CString(buffer) ==
    IF \E i \in 1 .. Len(buffer) : buffer[i] = Nul
       THEN SubSeq(buffer, 1, (CHOOSE i \in 1 .. Len(buffer) :
                                  buffer[i] = Nul /\ \A j \in 1 .. i - 1 : buffer[j] # Nul) - 1)
       ELSE buffer

\* line 380 declares the GPSData_t it hands to the parser without a value:
\* what it holds is what the stack holds there, zeroes or anything else.
Indeterminate ==
    {ZeroGpsData,
     [latitude |-> 1, longitude |-> 1, altitude |-> 1, satellites |-> 1,
      fix_quality |-> 1, timestamp |-> 1, hdop |-> 1, valid |-> TRUE]}

\* GPS_UARTCallback without the test of the index before it stores a character
GPS_UARTCallback_Unbounded(byte) ==
    /\ uart_rx' = [byte |-> byte,
                   since |-> IF byte = "$" THEN <<byte>>
                             ELSE IF byte = "\n" \/ uart_rx.since = <<>> THEN <<>>
                             ELSE IF Len(uart_rx.since) >= NMEA_BUFFER_SIZE THEN uart_rx.since
                             ELSE Append(uart_rx.since, byte)]
    /\ IF byte = "$"
          THEN /\ nmea_buffer' = <<byte>>
               /\ nmea_index' = 1
               /\ UNCHANGED <<gps_data, nmea_arg, nmea_ret, published, gps_has_fix,
                              current_gps_data, last_fix_timestamp>>
          ELSE IF byte = "\n"
                  THEN /\ \E local \in Indeterminate :
                            \E outcome \in {ParseSentence(CString(nmea_buffer), local)} :
                                /\ nmea_arg' = [sentence |-> <<CString(nmea_buffer)>>,
                                                data |-> TRUE]
                                /\ nmea_ret' = outcome.status
                                /\ gps_data' = outcome.gps_data
                                /\ gps_has_fix' = outcome.gps_has_fix
                                /\ current_gps_data' = outcome.current_gps_data
                                /\ last_fix_timestamp' = outcome.last_fix_timestamp
                                /\ published' = outcome.published
                       /\ nmea_buffer' = <<>>
                       /\ nmea_index' = 0
                  ELSE /\ nmea_buffer' = Append(nmea_buffer, byte)
                       /\ nmea_index' = nmea_index + 1
                       /\ UNCHANGED <<gps_data, nmea_arg, nmea_ret, published, gps_has_fix,
                                      current_gps_data, last_fix_timestamp>>
    /\ UNCHANGED <<gps_initialized, data_callback, positionReader,
                   bufferSide, powerSide, mainSide, canSide>>

\* gps_driver.c:369-393
GPS_UARTCallback(byte) ==
    /\ uart_rx' = [byte |-> byte,
                   since |-> IF byte = "$" THEN <<byte>>
                             ELSE IF byte = "\n" \/ uart_rx.since = <<>> THEN <<>>
                             ELSE IF Len(uart_rx.since) >= NMEA_BUFFER_SIZE THEN uart_rx.since
                             ELSE Append(uart_rx.since, byte)]
    /\ IF byte = "$"
          THEN /\ nmea_buffer' = <<byte>>
               /\ nmea_index' = 1
               /\ UNCHANGED <<gps_data, nmea_arg, nmea_ret, published, gps_has_fix,
                              current_gps_data, last_fix_timestamp>>
          ELSE IF byte = "\n"
                  THEN /\ \E local \in Indeterminate :
                            \E outcome \in {ParseSentence(CString(nmea_buffer), local)} :
                                /\ nmea_arg' = [sentence |-> <<CString(nmea_buffer)>>,
                                                data |-> TRUE]
                                /\ nmea_ret' = outcome.status
                                /\ gps_data' = outcome.gps_data
                                /\ gps_has_fix' = outcome.gps_has_fix
                                /\ current_gps_data' = outcome.current_gps_data
                                /\ last_fix_timestamp' = outcome.last_fix_timestamp
                                /\ published' = outcome.published
                       /\ nmea_buffer' = <<>>
                       /\ nmea_index' = 0
                  ELSE IF nmea_index < NMEA_BUFFER_SIZE - 1
                          THEN /\ nmea_buffer' = Append(nmea_buffer, byte)
                               /\ nmea_index' = nmea_index + 1
                               /\ UNCHANGED <<gps_data, nmea_arg, nmea_ret, published,
                                              gps_has_fix, current_gps_data,
                                              last_fix_timestamp>>
                          ELSE /\ nmea_buffer' = <<>>
                               /\ nmea_index' = 0
                               /\ UNCHANGED <<gps_data, nmea_arg, nmea_ret, published,
                                              gps_has_fix, current_gps_data,
                                              last_fix_timestamp>>
    /\ UNCHANGED <<gps_initialized, data_callback, positionReader,
                   bufferSide, powerSide, mainSide, canSide>>

\* The lines the receiver sends: a position fix and a recommended minimum as
\* it frames them, ended by CR LF; the position fix with a station field of
\* 70 digits, 135 characters with a checksum that is right; characters that
\* belong to no sentence; the recommended minimum followed by a byte 0 and a
\* character before the line ends; and an empty line.
UartLines ==
    <<Framed(Bodies.GgaFix, <<"4", "7">>) \o <<"\r", "\n">>,
      Framed(Bodies.RmcValid, <<"6", "A">>) \o <<"\r", "\n">>,
      Framed(Bodies.GgaFix \o [i \in 1 .. 70 |-> "0"], <<"4", "7">>) \o <<"\n">>,
      <<"X", "Y", "\n">>,
      Framed(Bodies.RmcValid, <<"6", "A">>) \o <<Nul, "Z", "\n">>,
      <<"\n">>>>

\* The receiver sends the next byte of its line.
UartContinue ==
    /\ uart_tx.line # 0
    /\ GPS_UARTCallback(UartLines[uart_tx.line][uart_tx.sent + 1])
    /\ uart_tx' = IF uart_tx.sent + 1 = Len(UartLines[uart_tx.line])
                     THEN [line |-> 0, sent |-> 0]
                     ELSE [uart_tx EXCEPT !.sent = @ + 1]

\* where a sentence is cut: after its '$', after its type, and, the long one,
\* when nmea_buffer is full, after the character that finds it full, and two
\* characters later
CutPoints == {1, 7, NMEA_BUFFER_SIZE - 1, NMEA_BUFFER_SIZE, NMEA_BUFFER_SIZE + 2}

\* The receiver starts a line, after the end of the line before or, the rest
\* of a sentence being lost on the way, in the middle of it.
UartStart(line) ==
    /\ IF uart_tx.line = 0
          THEN TRUE
          ELSE UartLines[uart_tx.line][1] = "$" /\ uart_tx.sent \in CutPoints
    /\ GPS_UARTCallback(UartLines[line][1])
    /\ uart_tx' = IF Len(UartLines[line]) = 1
                     THEN [line |-> 0, sent |-> 0]
                     ELSE [line |-> line, sent |-> 1]

NextUart ==
    \/ UartContinue
    \/ \E line \in DOMAIN UartLines : UartStart(line)

SpecUart == InitConc /\ [][NextUart]_vars

(***************************************************************************)
(* SensorAcquisitionTask (main.c:208-270), one step for every statement of  *)
(* its loop that reads a driver or writes the record; the calls of          *)
(* GPS_GetPosition and CircularBuffer_Push take the steps of those          *)
(* functions.  The CAN and ADC drivers are the environment: every call      *)
(* returns one of the values the driver can return.                        *)
(***************************************************************************)
\* Number of records a behaviour acquires.
MaxAcquired == 1

FLAG_GPS_VALID == 1

FLAG_CAN_VALID == 2

FLAG_ADC_VALID == 4

FLAG_LOW_BATTERY == 8

\* 11.5f, in the unit the model keeps altitude in
BATTERY_LOW_THRESHOLD_V == 115 * (AtofScale \div 10)

\* flags |= flag, for a flag of one bit
SetFlag(flags, flag) == IF (flags \div flag) % 2 = 1 THEN flags ELSE flags + flag

\* what ADC_GetBatteryVoltage returns (adc_driver.c:136-159): -1.0f while the
\* ADC does not run, else the voltage measured; here 11.0 V and 12.6 V
BatteryVoltages == {0 - AtofScale, 11 * AtofScale, 126 * (AtofScale \div 10)}

\* the magnitude (m + r / scale) * 2^(e - 23), doubled until m has 24 bits
RECURSIVE Normalise(_, _, _, _)
Normalise(m, r, e, scale) ==
    IF m >= 2 ^ 23
       THEN <<m, r, e>>
       ELSE Normalise(2 * m + (IF 2 * r >= scale THEN 1 ELSE 0), (2 * r) % scale, e - 1, scale)

\* The four bytes, lowest first, of the float nearest to n / scale (IEEE 754
\* single precision, ties to even), for a magnitude below 2^23 that is zero
\* or not below 2^-126.
FloatBytes(n, scale) ==
    LET a == IF n < 0 THEN 0 - n ELSE n
        norm == Normalise(a \div scale, a % scale, 23, scale)
        up == 2 * norm[2] > scale \/ (2 * norm[2] = scale /\ norm[1] % 2 = 1)
        carry == up /\ norm[1] + 1 = 2 ^ 24
        mantissa == IF carry THEN 0 ELSE norm[1] + (IF up THEN 1 ELSE 0) - 2 ^ 23
        exponent == norm[3] + 127 + (IF carry THEN 1 ELSE 0)
    IN  IF n = 0
           THEN <<0, 0, 0, 0>>
           ELSE <<mantissa % 256, (mantissa \div 256) % 256,
                  128 * (exponent % 2) + mantissa \div 65536,
                  (IF n < 0 THEN 128 ELSE 0) + exponent \div 2>>

\* telemetry_types.h:39-50: the bytes of a packed TelemetryRecord_t before its
\* crc16, sizeof(TelemetryRecord_t) - 2 of them.  timestamp and speed are
\* only ever zero (main.c:222, 226).
RecordBytes(r) ==
    <<r.timestamp % 256, (r.timestamp \div 256) % 256, (r.timestamp \div 65536) % 256,
      r.timestamp \div 16777216>>
    \o FloatBytes(r.speed, AtofScale)
    \o FloatBytes(r.battery_voltage, AtofScale)
    \o FloatBytes(r.latitude, DegreeScale)
    \o FloatBytes(r.longitude, DegreeScale)
    \o FloatBytes(r.altitude, AtofScale)
    \o <<r.gps_satellites, r.gps_fix_quality, r.flags, r.reserved>>

\* The task has run TELEMETRY_BUFFER_SIZE periods since System_Init in which
\* no driver had anything (the CAN bus silent, the ADC not running and
\* returning -1.0f, no position), and nothing was transmitted: the buffer is
\* full, and the push of the next record has to make room.
InitAcquisition ==
    /\ records = LET quiet == RecordBytes([ZeroTelemetry EXCEPT !.battery_voltage = 0 - AtofScale])
                 IN  [s \in Slots |-> [body |-> quiet, crc16 |-> Calculate_CRC16(quiet)]]
    /\ write_index = 0
    /\ read_index = 0
    /\ count = TELEMETRY_BUFFER_SIZE
    /\ overflow_count = 0
    /\ initialized = TRUE
    /\ pc = [t \in Tasks |-> "idle"]
    /\ loc = [t \in Tasks |-> LocIdle]
    /\ ret = [t \in Tasks |-> NoReturn]
    /\ pushes = TELEMETRY_BUFFER_SIZE
    /\ popped = <<>>
    /\ pre = [buf |-> Snapshot, last |-> NoReturn, last_count |-> 0]
    /\ PowerAtReset
    /\ GpsStatics(TRUE)
    /\ CanStatics(TRUE)
    /\ MainAtReset

\* main.c:218-223
Acq_Create ==
    /\ acq_pc = "create"
    /\ pushes < TELEMETRY_BUFFER_SIZE + MaxAcquired
    /\ record' = ZeroTelemetry
    /\ acq_pc' = "can"
    /\ UNCHANGED <<crc_arg, crc_ret, bufferSide, powerSide, gpsSide, canSide>>

\* main.c:227-229
Acq_ReadCan(healthy) ==
    /\ acq_pc = "can"
    /\ record' = IF healthy
                    THEN [record EXCEPT !.flags = SetFlag(@, FLAG_CAN_VALID)]
                    ELSE record
    /\ acq_pc' = "adc"
    /\ UNCHANGED <<crc_arg, crc_ret, bufferSide, powerSide, gpsSide, canSide>>

\* main.c:232-240
Acq_ReadAdc(voltage) ==
    /\ acq_pc = "adc"
    /\ record' = [record EXCEPT
                     !.battery_voltage = voltage,
                     !.flags = IF voltage > 0
                                  THEN IF voltage < BATTERY_LOW_THRESHOLD_V
                                          THEN SetFlag(SetFlag(@, FLAG_ADC_VALID), FLAG_LOW_BATTERY)
                                          ELSE SetFlag(@, FLAG_ADC_VALID)
                                  ELSE @]
    /\ acq_pc' = "gps"
    /\ UNCHANGED <<crc_arg, crc_ret, bufferSide, powerSide, gpsSide, canSide>>

\* main.c:243-244: the call, and the test of the status if it returns at once
Acq_GetPosition ==
    /\ acq_pc = "gps"
    /\ GetPosition_Call(TRUE)
    /\ acq_pc' = IF position_pc' > 0 THEN "copy" ELSE "crc"
    /\ UNCHANGED <<crc_arg, crc_ret, record>>

\* main.c:244: inside GPS_GetPosition, and the test of the status it returns
Acq_CopyPosition ==
    /\ acq_pc = "copy"
    /\ GetPosition_Copy
    /\ acq_pc' = IF position_pc' > 0 THEN "copy" ELSE "store"
    /\ UNCHANGED <<crc_arg, crc_ret, record>>

\* main.c:245-250
Acq_StorePosition ==
    /\ acq_pc = "store"
    /\ record' = [record EXCEPT
                     !.latitude = position_out.latitude,
                     !.longitude = position_out.longitude,
                     !.altitude = position_out.altitude,
                     !.gps_satellites = position_out.satellites,
                     !.gps_fix_quality = position_out.fix_quality,
                     !.flags = SetFlag(@, FLAG_GPS_VALID)]
    /\ acq_pc' = "crc"
    /\ UNCHANGED <<crc_arg, crc_ret, bufferSide, powerSide, gpsSide, canSide>>

\* Mutant of Acq_Crc: the low-battery flag is set after the code is computed.
Acq_Crc_ThenFlag ==
    /\ acq_pc = "crc"
    /\ crc_arg' = RecordBytes(record)
    /\ crc_ret' = <<Calculate_CRC16(crc_arg')>>
    /\ record' = [record EXCEPT !.crc16 = crc_ret'[1],
                                !.flags = SetFlag(@, FLAG_LOW_BATTERY)]
    /\ acq_pc' = "push"
    /\ UNCHANGED <<bufferSide, powerSide, gpsSide, canSide>>

\* main.c:254
Acq_Crc ==
    /\ acq_pc = "crc"
    /\ crc_arg' = RecordBytes(record)
    /\ crc_ret' = <<Calculate_CRC16(crc_arg')>>
    /\ record' = [record EXCEPT !.crc16 = crc_ret'[1]]
    /\ acq_pc' = "push"
    /\ UNCHANGED <<bufferSide, powerSide, gpsSide, canSide>>

\* main.c:257, the call; Return leaves the statement when the call is over.
\* The buffer takes the record as the bytes before the code, and the code.
Acq_Push ==
    /\ acq_pc = "push"
    /\ Push_Call("acq", [body |-> RecordBytes(record), crc16 |-> record.crc16])

\* main.c:258-268: the report, and the wait for the next period
Acq_Report ==
    /\ acq_pc = "report"
    /\ acq_pc' = "create"
    /\ UNCHANGED <<crc_arg, crc_ret, record, bufferSide, powerSide, gpsSide, canSide>>

NextAcquisition ==
    \/ Acq_Create
    \/ \E healthy \in BOOLEAN : Acq_ReadCan(healthy)
    \/ \E voltage \in BatteryVoltages : Acq_ReadAdc(voltage)
    \/ Acq_GetPosition
    \/ Acq_CopyPosition
    \/ Acq_StorePosition
    \/ Acq_Crc
    \/ Acq_Push
    \/ PushStep("acq")
    \/ Acq_Report
    \/ GPS_ParseNMEA(<<Framed(Bodies.GgaSouthWest, <<"4", "8">>)>>, TRUE)

SpecAcquisition == InitAcquisition /\ [][NextAcquisition]_vars

(***************************************************************************)
(* The listeners: the RX callbacks of the CAN driver                       *)
(* (can_driver.c:81-104, 207-225), the data callback of the GPS driver and  *)
(* the wake-source callbacks of the power manager.                         *)
(***************************************************************************)
\* can_driver.c:81-104
CAN_RegisterRxCallback(id, callback) ==
    /\ IF can_initialized /\ callback # NULL /\ callback_count < RxCallbackSlots
          THEN /\ filter_ids' = [filter_ids EXCEPT ![callback_count] = id]
               /\ rx_callbacks' = [rx_callbacks EXCEPT ![callback_count] = callback]
               /\ callback_count' = callback_count + 1
          ELSE UNCHANGED <<filter_ids, rx_callbacks, callback_count>>
    /\ UNCHANGED <<can_initialized, can_invoked, bufferSide, powerSide, gpsSide, mainSide>>

\* Mutant of CAN_IRQHandler: the loop has no break.
CAN_IRQHandler_NoBreak(id) ==
    /\ can_invoked' = LET RECURSIVE From(_)
                          From(i) == IF i >= callback_count
                                        THEN <<>>
                                        ELSE IF id = filter_ids[i] /\ rx_callbacks[i] # NULL
                                                THEN <<rx_callbacks[i]>> \o From(i + 1)
                                                ELSE From(i + 1)
                      IN  From(0)
    /\ UNCHANGED <<can_initialized, rx_callbacks, filter_ids, callback_count,
                   bufferSide, powerSide, gpsSide, mainSide>>

\* can_driver.c:207-225.  msg is never filled in (lines 208-214): id is the
\* value msg.id happens to hold.
CAN_IRQHandler(id) ==
    /\ can_invoked' = LET RECURSIVE From(_)
                          From(i) == IF i >= callback_count
                                        THEN <<>>
                                        ELSE IF id = filter_ids[i] /\ rx_callbacks[i] # NULL
                                                THEN <<rx_callbacks[i]>>
                                                ELSE From(i + 1)
                      IN  From(0)
    /\ UNCHANGED <<can_initialized, rx_callbacks, filter_ids, callback_count,
                   bufferSide, powerSide, gpsSide, mainSide>>

\* Every driver is handed listeners, for the same event too, and every event
\* arrives.  256 and 512 are the identifiers 0x100 and 0x200.
NextListeners ==
    \/ \E id \in {256, 512}, callback \in {NULL, "OnSpeed", "OnRpm"} :
           CAN_RegisterRxCallback(id, callback)
    \/ \E id \in {256, 512} : CAN_IRQHandler(id)
    \/ \E callback \in {NULL, "OnGpsData", "OnFix"} : GPS_RegisterCallback(callback)
    \/ GPS_ParseNMEA(<<Framed(Bodies.GgaFix, <<"4", "7">>)>>, TRUE)
    \/ Power_Init
    \/ \E callback \in {"OnWake", "OnMotion"} : Power_RegisterWakeSource(0, callback)

SpecListeners == InitConc /\ [][NextListeners]_vars

(***************************************************************************)
(* Calculate_CRC16 called on its own (main.c:403-419).  The function reads  *)
(* the bytes it is handed and its own register, nothing else.               *)
(***************************************************************************)
MaxCrcLen == 3

\* "123456789", the string the catalogues of CRC algorithms give the check
\* value for
CheckString == <<49, 50, 51, 52, 53, 54, 55, 56, 57>>

RECURSIVE ByteStrings(_)
ByteStrings(n) ==
    IF n = 0
       THEN {<<>>}
       ELSE LET shorter == ByteStrings(n - 1)
            IN  shorter \cup {Append(d, b) : d \in {x \in shorter : Len(x) = n - 1},
                                              b \in {0, 1, 128, 255, 49}}

CrcInputs == ByteStrings(MaxCrcLen) \cup {CheckString}

\* the program at reset, about to call Calculate_CRC16 on some bytes
InitCrc ==
    /\ BufferZeroed
    /\ initialized = FALSE
    /\ TasksIdle
    /\ pre = [buf |-> Snapshot, last |-> NoReturn, last_count |-> 0]
    /\ PowerAtReset
    /\ GpsStatics(FALSE)
    /\ CanStatics(FALSE)
    /\ crc_arg \in CrcInputs
    /\ crc_ret = <<>>
    /\ AcquisitionAtStart

Crc16Call ==
    /\ crc_ret' = <<Calculate_CRC16(crc_arg)>>
    /\ UNCHANGED <<crc_arg, acq_pc, record, bufferSide, powerSide, gpsSide, canSide>>

NextCrc == Crc16Call

SpecCrc == InitCrc /\ [][NextCrc]_vars

(***************************************************************************)
(* What the claims speak about.                                            *)
(***************************************************************************)
\* The sequential caller is between two calls.
MainIdle == pc["main"] = "idle"

\* The result of the sequential caller's last call, and what that call found.
Last == ret["main"]

\* The records a buffer b holds, oldest first: what successive pops return.
Held(b) ==
    [i \in 1 .. b.count |-> b.records[(b.read_index + i - 1) % TELEMETRY_BUFFER_SIZE]]

\* A bounded FIFO queue with eviction: appending r to a queue q of capacity N.
QueuePush(q, r) ==
    IF Len(q) >= TELEMETRY_BUFFER_SIZE THEN Append(Tail(q), r) ELSE Append(q, r)

\* The bodies of a sequence of records number the pushes in rising order.
InPushOrder(q) ==
    \A i, j \in 1 .. Len(q) : i < j => (0 < q[i].body /\ q[i].body < q[j].body)

(***************************************************************************)
(* C1: with one producer and one consumer interleaved between any two      *)
(* atomic operations, count is at every instant between 0 and N: it never  *)
(* wraps below zero and never exceeds N.                                   *)
(***************************************************************************)
C1_CountWithinCapacity == count \in 0 .. TELEMETRY_BUFFER_SIZE

(***************************************************************************)
(* C2: for every sequence of pushes with no concurrent operation, count    *)
(* never exceeds N, and overflow_count grows by exactly one for a push     *)
(* performed while count was N and by zero for every other push.           *)
(***************************************************************************)
C2_OverflowCountedOncePerFullPush ==
    /\ count <= TELEMETRY_BUFFER_SIZE
    /\ (MainIdle /\ Last.op = "push" /\ pre.buf.initialized) =>
          overflow_count =
             pre.buf.overflow_count + (IF pre.buf.count = TELEMETRY_BUFFER_SIZE THEN 1 ELSE 0)

\* Two pushes in a row each found the buffer full.
C2_Witness ==
    /\ MainIdle
    /\ Last.op = "push"
    /\ pre.buf.count = TELEMETRY_BUFFER_SIZE
    /\ pre.last.op = "push"
    /\ pre.last_count = TELEMETRY_BUFFER_SIZE
    /\ overflow_count = 2

C4_PushPopRoundTrip ==
    ( /\ MainIdle
      /\ Last.op = "pop"
      /\ pre.last.op = "push"
      /\ pre.last.status # STATUS_NOT_INITIALIZED
      /\ pre.last_count = 0 ) =>
        /\ Last.status = STATUS_OK
        /\ Last.rec = pre.last.rec
        /\ Last.rec.crc16 = Calculate_CRC16(<<Last.rec.body>>)
        /\ count = 0
        /\ CircularBuffer_IsEmpty

\* The round trip on a buffer that had been filled and drained before, so
\* that the record sits in a slot that held another one.
C4_Witness ==
    /\ MainIdle
    /\ Last.op = "pop"
    /\ pre.last.op = "push"
    /\ pre.last.status = STATUS_OK
    /\ pre.last_count = 0
    /\ Last.rec.body = TELEMETRY_BUFFER_SIZE + 1
    /\ Last.rec.crc16 # 0

(***************************************************************************)
(* C5: with one producer and two consumers calling CircularBuffer_Pop      *)
(* concurrently, every pushed record is returned by at most one pop.       *)
(***************************************************************************)
C5_NoRecordPoppedTwice ==
    \A i, j \in 1 .. Len(popped) :
        (i # j /\ popped[i].body # 0) => popped[i].body # popped[j].body

(***************************************************************************)
(* C6: CircularBuffer_Peek never changes the buffer: whatever the offset   *)
(* and whether it succeeds or not, count, the indices, overflow_count and  *)
(* the stored records are as before, so the pops that follow return what   *)
(* they would have returned; a successful peek(offset) returns the record  *)
(* at (read_index + offset) mod N.                                         *)
(***************************************************************************)
C6_PeekLeavesBufferAlone ==
    /\ pc["main"] \in {"peek_load_count", "peek_load_read", "peek_copy_body", "peek_copy_crc"} =>
          Snapshot = pre.buf
    /\ (MainIdle /\ Last.op = "peek") =>
          /\ Snapshot = pre.buf
          /\ Held(Snapshot) = Held(pre.buf)
          /\ Last.status = STATUS_OK =>
                Last.rec = records[(read_index + Last.arg) % TELEMETRY_BUFFER_SIZE]
          /\ (pre.buf.initialized /\ Last.arg < pre.buf.count) => Last.status = STATUS_OK

\* A successful peek past the oldest record whose index wraps around the end
\* of the array.
C6_Witness ==
    /\ MainIdle
    /\ Last.op = "peek"
    /\ Last.status = STATUS_OK
    /\ Last.arg = 1
    /\ read_index = TELEMETRY_BUFFER_SIZE - 1
    /\ Last.rec = records[0]
    /\ Last.rec.body > TELEMETRY_BUFFER_SIZE

(***************************************************************************)
(* C7: on an initialised buffer holding c records, pop_batch(max) with     *)
(* max >= 1 and no concurrent operation returns min(max, c), copies out    *)
(* the min(max, c) oldest records in FIFO order and leaves                 *)
(* count = c - min(max, c); with max > c it returns c and leaves the       *)
(* buffer empty.                                                           *)
(***************************************************************************)
C7_PopBatchTakesOldest ==
    (MainIdle /\ Last.op = "pop_batch" /\ pre.buf.initialized /\ Last.arg >= 1) =>
        /\ Last.n = Min(Last.arg, pre.buf.count)
        /\ Last.out = SubSeq(Held(pre.buf), 1, Last.n)
        /\ count = pre.buf.count - Last.n
        /\ Held(Snapshot) = SubSeq(Held(pre.buf), Last.n + 1, pre.buf.count)
        /\ Last.arg > pre.buf.count => (Last.n = pre.buf.count /\ CircularBuffer_IsEmpty)

\* A batch larger than the content of a full buffer drains it.
C7_Witness ==
    /\ MainIdle
    /\ Last.op = "pop_batch"
    /\ pre.buf.count = TELEMETRY_BUFFER_SIZE
    /\ Last.arg > TELEMETRY_BUFFER_SIZE
    /\ Last.n = TELEMETRY_BUFFER_SIZE
    /\ Len(Last.out) = TELEMETRY_BUFFER_SIZE
    /\ count = 0

(***************************************************************************)
(* C8: CircularBuffer_Push returns STATUS_BUFFER_FULL if the buffer is     *)
(* full, and STATUS_OK on success.                                         *)
(***************************************************************************)
C8_PushOnFullReturnsBufferFull ==
    (MainIdle /\ Last.op = "push" /\ pre.buf.initialized) =>
        Last.status =
           (IF pre.buf.count >= TELEMETRY_BUFFER_SIZE THEN STATUS_BUFFER_FULL ELSE STATUS_OK)

(***************************************************************************)
(* C9: pop on an initialised buffer whose count is 0 returns NoData, and   *)
(* peek with offset >= count returns NoData; both leave the indices,       *)
(* count, overflow_count and the stored records unchanged.                 *)
(***************************************************************************)
C9_NoDataChangesNothing ==
    (MainIdle /\ pre.buf.initialized) =>
        /\ (Last.op = "pop" /\ pre.buf.count = 0) =>
              (Last.status = STATUS_NO_DATA /\ Snapshot = pre.buf)
        /\ (Last.op = "peek" /\ Last.arg >= pre.buf.count) =>
              (Last.status = STATUS_NO_DATA /\ Snapshot = pre.buf)

\* A pop that finds the buffer drained after records went through it.
C9_Witness ==
    /\ MainIdle
    /\ Last.op = "pop"
    /\ Last.status = STATUS_NO_DATA
    /\ pre.buf.initialized
    /\ Len(popped) > 0
    /\ read_index # 0

(***************************************************************************)
(* C10: on a buffer that has not been initialised, push, pop, peek and     *)
(* clear return NotInitialized and modify nothing, pop_batch returns 0,    *)
(* and count / overflow_count read as 0.                                   *)
(***************************************************************************)
C10_UninitialisedBufferRefuses ==
    /\ (MainIdle /\ ~pre.buf.initialized /\ Last.op \in {"push", "pop", "peek", "clear"}) =>
          (Last.status = STATUS_NOT_INITIALIZED /\ Snapshot = pre.buf)
    /\ (MainIdle /\ ~pre.buf.initialized /\ Last.op = "pop_batch") =>
          (Last.n = 0 /\ Last.out = <<>> /\ Snapshot = pre.buf)
    /\ ~initialized =>
          (CircularBuffer_GetCount = 0 /\ CircularBuffer_GetOverflowCount = 0)

\* A push was refused, and then a batch pop, before CircularBuffer_Init.
C10_Witness ==
    /\ MainIdle
    /\ ~initialized
    /\ Last.op = "pop_batch"
    /\ Last.arg > 0
    /\ pre.last.op = "push"
    /\ pre.last.status = STATUS_NOT_INITIALIZED

(***************************************************************************)
(* C11: CircularBuffer_Clear on an initialised buffer sets write_index,     *)
(* read_index and count to zero and leaves the stored records and           *)
(* overflow_count as they were; the buffer is then empty, and a pop that    *)
(* directly follows the clear returns STATUS_NO_DATA.                       *)
(***************************************************************************)
C11_ClearResetsIndicesOnly ==
    /\ (MainIdle /\ Last.op = "clear" /\ pre.buf.initialized) =>
          /\ Last.status = STATUS_OK
          /\ write_index = 0
          /\ read_index = 0
          /\ count = 0
          /\ records = pre.buf.records
          /\ overflow_count = pre.buf.overflow_count
          /\ CircularBuffer_IsEmpty
    /\ (MainIdle /\ Last.op = "pop" /\ pre.last.op = "clear"
            /\ pre.last.status = STATUS_OK) =>
          Last.status = STATUS_NO_DATA

\* a pop right after the clear of a buffer that held records and had evicted
C11_Witness ==
    /\ MainIdle
    /\ Last.op = "pop"
    /\ Last.status = STATUS_NO_DATA
    /\ pre.last.op = "clear"
    /\ pre.last.status = STATUS_OK
    /\ pre.last_count = TELEMETRY_BUFFER_SIZE
    /\ overflow_count > 0
    /\ \E i \in Slots : records[i] # ZeroRecord

(***************************************************************************)
(* C12: whatever the other task does in between, a push, a pop and a peek  *)
(* each finish within a fixed number of the calling task's own steps and a *)
(* pop_batch(max) within a number proportional to max; a task inside a     *)
(* call always has a step of its own to take, none waits for a value       *)
(* another task must change, so the producer is never blocked by the       *)
(* consumer.                                                               *)
(***************************************************************************)
StepBound(t) ==
    IF pc[t] \in PushLabels THEN Cardinality(PushLabels)
    ELSE IF pc[t] \in PeekLabels THEN Cardinality(PeekLabels)
    ELSE IF loc[t].batch THEN loc[t].max_count * Cardinality(PopLabels)
    ELSE Cardinality(PopLabels)

C12_BoundedAndNeverBlocked ==
    \A t \in {"acq", "tx"} :
        pc[t] # "idle" =>
            /\ loc[t].steps <= StepBound(t)
            /\ ENABLED OwnStep(t)

\* the producer on the last step of an evicting push and the consumer, a peek
\* behind it, on the last step of a full batch, each interrupted by the other
C12_Witness ==
    /\ pc["acq"] = "push_inc_count"
    /\ loc["acq"].steps = Cardinality(PushLabels)
    /\ pc["tx"] = "pop_dec_count"
    /\ loc["tx"].batch
    /\ loc["tx"].steps = MaxBatch * Cardinality(PopLabels)
    /\ ret["tx"].op = "peek"
    /\ ret["tx"].status = STATUS_OK

\* The task that drives the power manager is between two calls.
PmIdle == pm_pc = "idle"

SetModeLabels ==
    {"sm_add_dwell", "sm_update_energy", "sm_apply_can", "sm_apply_gps",
     "sm_wake_sources", "sm_store_previous", "sm_store_current", "sm_store_entry_time"}

\* The last two calls were Power_SetMode(POWER_MODE_DEEP_SLEEP), issued in
\* POWER_MODE_ACTIVE, and Power_SetMode(POWER_MODE_ACTIVE); no time passed
\* inside either call, so the time between them is one number.
SleptAndWoke ==
    /\ PmIdle
    /\ pm_ret.op = "set_mode"
    /\ pm_ret.mode = POWER_MODE_ACTIVE
    /\ pm_ret.status = STATUS_OK
    /\ pm_ret.at = pm_pre.now.now_ms
    /\ pm_pre.now.current_mode = POWER_MODE_DEEP_SLEEP
    /\ pm_pre.now.previous_mode = POWER_MODE_ACTIVE
    /\ pm_pre.last.op = "set_mode"
    /\ pm_pre.last.mode = POWER_MODE_DEEP_SLEEP
    /\ pm_pre.last.status = STATUS_OK
    /\ pm_pre.last.at = pm_pre.last_at

\* the milliseconds between the two calls of SleptAndWoke
SleptFor == pm_pre.now.now_ms - pm_pre.last.at

(***************************************************************************)
(* C13: a Power_GetStatistics that runs between two statements of a        *)
(* Power_SetMode in progress neither double-counts nor loses time: the     *)
(* three dwell times it reports add up to the time that has passed since   *)
(* Power_Init.                                                             *)
(***************************************************************************)
C13_MidTransitionStatisticsAddUp ==
    stats_out.during \in SetModeLabels =>
        stats_out.active_time_ms + stats_out.idle_time_ms + stats_out.sleep_time_ms
            = stats_out.at

(***************************************************************************)
(* C14: Power_SetMode(DEEP_SLEEP) issued in ACTIVE, then T ms, then        *)
(* Power_SetMode(ACTIVE): the dwell time of DEEP_SLEEP has grown by        *)
(* exactly T, for every T.                                                 *)
(***************************************************************************)
C14_SleepIntervalAttributed ==
    SleptAndWoke => time_sleep_ms = U32(pm_pre.now.time_sleep_ms + SleptFor)

(***************************************************************************)
(* C15: the cumulative energy grows, between two settlements, by the       *)
(* current of the mode times the length of the interval: after             *)
(* ACTIVE -> DEEP_SLEEP -> ACTIVE with T ms in DEEP_SLEEP it has grown by   *)
(* (CURRENT_DEEP_SLEEP_UA / 1000) * T / 3600000 mAh.                       *)
(***************************************************************************)
C15_SleepEnergyAccrued ==
    SleptAndWoke =>
        cumulative_energy_mah =
            pm_pre.now.cumulative_energy_mah + CURRENT_DEEP_SLEEP_TENTH_UA * SleptFor

(***************************************************************************)
(* C16: once initialised, Power_SetMode(B) issued in mode A # B returns    *)
(* STATUS_OK and leaves previous_mode = A, current_mode = B and            *)
(* mode_entry_time at the current time (a time between the call and its    *)
(* return); Power_SetMode(A) issued in mode A returns STATUS_OK, changes   *)
(* nothing of the power manager and invokes no power-state function.       *)
(***************************************************************************)
C16_SetModeRecordsTransition ==
    (PmIdle /\ pm_ret.op = "set_mode" /\ pm_pre.now.power_initialized) =>
        /\ pm_ret.status = STATUS_OK
        /\ pm_ret.mode # pm_pre.now.current_mode =>
              /\ previous_mode = pm_pre.now.current_mode
              /\ current_mode = pm_ret.mode
              /\ mode_entry_time \in pm_pre.now.now_ms .. pm_ret.at
        /\ pm_ret.mode = pm_pre.now.current_mode =>
              /\ [PowerSnapshot EXCEPT !.now_ms = 0] = [pm_pre.now EXCEPT !.now_ms = 0]
              /\ invoked = <<>>

\* The last call was a Power_SetMode that took the power manager from one
\* of its modes into another.
Transitioned ==
    /\ PmIdle
    /\ pm_ret.op = "set_mode"
    /\ pm_ret.status = STATUS_OK
    /\ pm_ret.mode \in PowerModes
    /\ pm_pre.now.power_initialized
    /\ pm_ret.mode # pm_pre.now.current_mode

(***************************************************************************)
(* C17: on a transition into mode B, the power-state function of every     *)
(* peripheral (CAN, GPS, cellular, LoRaWAN, flash) whose flag in B's       *)
(* vector differs from what was last applied to it is invoked with B's     *)
(* flag, so that afterwards what is applied to every peripheral is B's     *)
(* vector.                                                                 *)
(***************************************************************************)
C17_TransitionAppliesVector ==
    Transitioned =>
        \A p \in Peripherals :
            LET flag == EnabledIn(peripheral_configs[pm_ret.mode], p)
            IN  /\ pm_pre.now.applied[p] # <<flag>> =>
                      \E i \in 1 .. Len(invoked) : invoked[i] = <<p, flag>>
                /\ applied[p] = <<flag>>

\* Neither table of the power manager has changed in the last call.
TablesUnchanged ==
    /\ peripheral_configs = pm_pre.now.peripheral_configs
    /\ wake_callbacks = pm_pre.now.wake_callbacks

\* The last call was a Power_ConfigurePeripherals for a mode out of range.
ConfiguredOutOfRange ==
    /\ PmIdle
    /\ pm_ret.op = "configure_peripherals"
    /\ pm_ret.mode >= POWER_MODE_COUNT

\* The last call was a Power_RegisterWakeSource with a null callback or for
\* a source out of range.
RegisteredBadly ==
    /\ PmIdle
    /\ pm_ret.op = "register_wake_source"
    /\ (pm_ret.callback = NULL \/ pm_ret.source >= WAKE_SOURCE_COUNT)

(***************************************************************************)
(* C18, as stated: configuring the peripherals of a mode out of range, or  *)
(* registering a null callback or a wake source out of range, fails with   *)
(* STATUS_INVALID_PARAM and leaves both tables as they were.               *)
(***************************************************************************)
C18_BadArgumentsInvalidParam ==
    (ConfiguredOutOfRange \/ RegisteredBadly) =>
        /\ pm_ret.status = STATUS_INVALID_PARAM
        /\ TablesUnchanged

(***************************************************************************)
(* C18, amended: configuring the peripherals of a mode out of range fails  *)
(* with STATUS_INVALID_PARAM; registering a null callback or a wake source *)
(* out of range fails with STATUS_INVALID_PARAM once the power manager is  *)
(* initialised and with STATUS_NOT_INITIALIZED before; both tables are     *)
(* left as they were in every one of these cases.                          *)
(***************************************************************************)
C18_BadArgumentsRefused ==
    /\ ConfiguredOutOfRange =>
          /\ pm_ret.status = STATUS_INVALID_PARAM
          /\ TablesUnchanged
    /\ RegisteredBadly =>
          /\ pm_ret.status = IF pm_pre.now.power_initialized
                                THEN STATUS_INVALID_PARAM
                                ELSE STATUS_NOT_INITIALIZED
          /\ TablesUnchanged

\* a null callback refused for a source that has a callback registered, with
\* the peripherals of a mode configured before
C18_Witness ==
    /\ RegisteredBadly
    /\ pm_ret.callback = NULL
    /\ pm_ret.source \in WakeSources
    /\ pm_ret.status = STATUS_INVALID_PARAM
    /\ wake_callbacks[pm_ret.source] # NULL
    /\ peripheral_configs # DefaultPeripheralConfigs

\* The last call of the parser was given a sentence and a GPSData_t.
ParsedSentence == nmea_ret # "none" /\ nmea_arg.sentence # NullSentence /\ nmea_arg.data

\* the sentence it was given
LastSentence == nmea_arg.sentence[1]

\* A sentence in its envelope: it begins with '$', has a '*', and ends with
\* exactly two hexadecimal digits after that '*'.
HasEnvelope(s) ==
    /\ Len(s) >= 4
    /\ s[1] = "$"
    /\ FirstStar(s) = Len(s) - 2
    /\ s[Len(s) - 1] \in HexDigits
    /\ s[Len(s)] \in HexDigits

\* the characters a byte or a digit is altered to: digits of either case, a
\* letter that is no digit, white space, a sign, and the two delimiters
AlterChars == {"0", "7", "A", "a", "G", " ", "+", "-", "*", ","}

\* s with its final two characters replaced by a and b
WithTrailer(s, a, b) == SubSeq(s, 1, Len(s) - 2) \o <<a, b>>

\* s with the byte at index i replaced by c
WithByte(s, i, c) == [s EXCEPT ![i] = c]

\* every different pair put in the place of the two digits is rejected
TrailerAlterationsRejected(s) ==
    \A a \in AlterChars, b \in AlterChars :
        <<a, b>> # <<s[Len(s) - 1], s[Len(s)]>>
            => ParseStatus(WithTrailer(s, a, b)) # STATUS_OK

\* every different byte put in the place of one between '$' and '*' is rejected
BodyAlterationsRejected(s) ==
    \A i \in 2 .. Len(s) - 3, c \in AlterChars :
        c # s[i] => ParseStatus(WithByte(s, i, c)) # STATUS_OK

(***************************************************************************)
(* C19: for every sentence the parser accepts, altering its final two hex  *)
(* digits to any different pair of characters makes the parser reject it,  *)
(* and altering any single byte strictly between '$' and '*' to any        *)
(* different byte, without recomputing the checksum, makes the parser      *)
(* reject it.                                                              *)
(***************************************************************************)
C19_AlteredSentenceRejected ==
    (ParsedSentence /\ nmea_ret = STATUS_OK /\ HasEnvelope(LastSentence)) =>
        /\ TrailerAlterationsRejected(LastSentence)
        /\ BodyAlterationsRejected(LastSentence)

(***************************************************************************)
(* C20: every sentence that lacks the envelope, that is, does not begin    *)
(* with '$', has no '*', or does not have exactly two hex digits after the *)
(* '*', is rejected with status Error.                                     *)
(***************************************************************************)
C20_NoEnvelopeRejected ==
    (ParsedSentence /\ ~HasEnvelope(LastSentence)) => nmea_ret = STATUS_ERROR

\* The kinds of sentence a caller wants to tell apart.  All three stand in
\* their envelope.  The checksum failed: the two digits are not the XOR of
\* the body.
ChecksumFailed(s) ==
    /\ HasEnvelope(s)
    /\ CalculatedChecksum(s, 2, Len(s) - 3) # HexNumber(SubSeq(s, Len(s) - 1, Len(s)))

\* the sentence type is none of the position-fix and recommended-minimum ones
Unsupported(s) ==
    /\ HasEnvelope(s)
    /\ ~ChecksumFailed(s)
    /\ \A prefix \in {<<"$", "G", "P", "G", "G", "A">>, <<"$", "G", "N", "G", "G", "A">>,
                      <<"$", "G", "P", "R", "M", "C">>, <<"$", "G", "N", "R", "M", "C">>} :
           ~StartsWith(s, prefix)

\* the comma-delimited fields of the body of an enveloped sentence, the
\* sentence type being field 0 (an empty field is an empty sequence)
Fields(s) ==
    LET body == SubSeq(s, 2, Len(s) - 3)
        commas == {i \in 1 .. Len(body) : body[i] = ","}
        nth(n) == CHOOSE i \in commas : Cardinality({j \in commas : j < i}) = n - 1
        from(k) == IF k = 0 THEN 1 ELSE nth(k) + 1
        to(k) == IF k = Cardinality(commas) THEN Len(body) ELSE nth(k + 1) - 1
    IN  [k \in 0 .. Cardinality(commas) |-> SubSeq(body, from(k), to(k))]

IsGga(s) ==
    StartsWith(s, <<"$", "G", "P", "G", "G", "A">>) \/ StartsWith(s, <<"$", "G", "N", "G", "G", "A">>)

IsRmc(s) ==
    StartsWith(s, <<"$", "G", "P", "R", "M", "C">>) \/ StartsWith(s, <<"$", "G", "N", "R", "M", "C">>)

\* a supported sentence of at least ten fields that reports no fix: a
\* position-fix sentence whose fix quality (field 6) is 0, or a
\* recommended-minimum sentence whose status (field 2) is not 'A'
NoFixYet(s) ==
    /\ HasEnvelope(s)
    /\ ~ChecksumFailed(s)
    /\ LET f == Fields(s)
       IN  /\ Cardinality(DOMAIN f) >= 10
           /\ \/ IsGga(s) /\ f[6] = <<"0">>
              \/ IsRmc(s) /\ f[2] # <<"A">>

SentenceKind(s) ==
    CASE ChecksumFailed(s) -> "checksum failed"
      [] Unsupported(s) -> "unsupported"
      [] NoFixYet(s) -> "no fix yet"
      [] OTHER -> "other"

\* what the caller has in hand after parsing s: the status and the validity flag
Observed(s) ==
    LET outcome == ParseSentence(s, gps_data)
    IN  <<outcome.status, outcome.gps_data.valid>>

(***************************************************************************)
(* C21: from the parser's result the caller can distinguish three          *)
(* outcomes: a sentence of unsupported type, a sentence whose checksum     *)
(* failed, and a supported sentence reporting no fix yet produce pairwise  *)
(* different observable results (status code and validity flag).  Taken    *)
(* at every call: what the call of a sentence of one kind returns is not   *)
(* what the caller would have got for a sentence of another kind.          *)
(***************************************************************************)
C21_OutcomesDistinguishable ==
    [][(/\ nmea_arg'.sentence # NullSentence
        /\ nmea_arg'.data
        /\ SentenceKind(nmea_arg'.sentence[1]) # "other")
       => \A s \in TestSentences :
              SentenceKind(s) \notin {"other", SentenceKind(nmea_arg'.sentence[1])}
                  => Observed(s) # <<nmea_ret', gps_data'.valid>>]_vars

(***************************************************************************)
(* C22: every position-fix sentence with a valid envelope and checksum     *)
(* whose fix-quality field is 0 yields status Ok with valid = false and no *)
(* coordinate parsing (likewise a recommended-minimum sentence whose       *)
(* status field is not the valid marker); it is never reported as an       *)
(* error.                                                                  *)
(***************************************************************************)
C22_NoFixIsOkAndInvalid ==
    [][(/\ nmea_arg'.sentence # NullSentence
        /\ nmea_arg'.data
        /\ NoFixYet(nmea_arg'.sentence[1]))
       => /\ nmea_ret' = STATUS_OK
          /\ gps_data'.valid = FALSE
          /\ gps_data'.latitude = gps_data.latitude
          /\ gps_data'.longitude = gps_data.longitude]_vars

\* The call just made parsed a sentence of a supported type that stands in
\* its envelope with the right checksum.
ParsedSupported ==
    /\ nmea_arg'.sentence # NullSentence
    /\ nmea_arg'.data
    /\ HasEnvelope(nmea_arg'.sentence[1])
    /\ ~ChecksumFailed(nmea_arg'.sentence[1])
    /\ IsGga(nmea_arg'.sentence[1]) \/ IsRmc(nmea_arg'.sentence[1])

(***************************************************************************)
(* C23: fields are taken by comma position: the k-th comma-delimited field *)
(* of a sentence is used as field k of its sentence type even when earlier *)
(* fields are empty, and a sentence with fewer than 10 comma-delimited     *)
(* fields is rejected.  For a position-fix sentence field 6 is the fix     *)
(* quality, fields 2 and 3 the latitude and field 7 the satellites; for a  *)
(* recommended-minimum sentence field 2 is the status and field 1 the      *)
(* time.                                                                   *)
(***************************************************************************)
C23_FieldsByCommaPosition ==
    [][ParsedSupported =>
          LET s == nmea_arg'.sentence[1]
              f == Fields(s)
          IN  IF Cardinality(DOMAIN f) < 10
                 THEN nmea_ret' = STATUS_ERROR
                 ELSE /\ nmea_ret' = STATUS_OK
                      /\ IsGga(s) =>
                            /\ gps_data'.fix_quality = atoi(f[6]) % 256
                            /\ gps_data'.valid = (atoi(f[6]) % 256 # 0)
                            /\ (gps_data'.valid /\ f[2] # <<>> /\ f[3] # <<>>) =>
                                  /\ gps_data'.latitude = GPS_ConvertCoordinate(f[2], f[3])
                                  /\ gps_data'.satellites = atoi(f[7]) % 256
                      /\ IsRmc(s) =>
                            /\ gps_data'.valid = (f[2] # <<>> /\ f[2][1] = "A")
                            /\ gps_data'.valid => gps_data'.timestamp = U32(atoi(f[1]))]_vars

\* The last call parsed a sentence that reports a fix with none of its first
\* seven fields empty, so that each of them is where the parser looks for it.
ParsedFix ==
    /\ ParsedSentence
    /\ nmea_ret = STATUS_OK
    /\ gps_data.valid
    /\ HasEnvelope(LastSentence)
    /\ IsGga(LastSentence) \/ IsRmc(LastSentence)
    /\ \A k \in 0 .. 6 : Fields(LastSentence)[k] # <<>>

\* the latitude and the longitude, each with its hemisphere letter, where
\* the sentence type has them
LatitudeFields == IF IsGga(LastSentence) THEN <<2, 3>> ELSE <<3, 4>>

LongitudeFields == IF IsGga(LastSentence) THEN <<4, 5>> ELSE <<5, 6>>

\* degrees = floor(value / 100), minutes = value - 100 * degrees, the result
\* degrees + minutes / 60 in millionths of a degree, negated for S and W
DecodedDegrees(value_field, hemisphere) ==
    LET value == atof(value_field)
        degrees == value \div (100 * AtofScale)
        minutes == value - 100 * degrees * AtofScale
        result == degrees * DegreeScale + (minutes * (DegreeScale \div AtofScale)) \div 60
    IN  IF hemisphere \in {<<"S">>, <<"W">>} THEN 0 - result ELSE result

\* a and b differ by a thousandth of a degree at most, whatever the float
\* arithmetic of the code does to a
WithinTolerance(a, b) ==
    /\ a - b <= (DegreeScale \div 1000) - FloatError
    /\ b - a <= (DegreeScale \div 1000) - FloatError

(***************************************************************************)
(* C24: coordinate decoding of DDMM.MMMM / DDDMM.MMMM: degrees =           *)
(* floor(value/100), minutes = value - 100 * degrees, result = degrees +   *)
(* minutes/60, negated when the hemisphere letter is S or W; so 4807.038,N *)
(* gives 48.1173 (within 1e-3) and 01131.000,W gives -11.5167.             *)
(***************************************************************************)
C24_CoordinateDecoding ==
    ParsedFix =>
        LET f == Fields(LastSentence)
            lat == LatitudeFields
            lon == LongitudeFields
        IN  /\ WithinTolerance(gps_data.latitude, DecodedDegrees(f[lat[1]], f[lat[2]]))
            /\ WithinTolerance(gps_data.longitude, DecodedDegrees(f[lon[1]], f[lon[2]]))
            /\ (f[lat[1]] = <<"4", "8", "0", "7", ".", "0", "3", "8">> /\ f[lat[2]] = <<"N">>)
                  => WithinTolerance(gps_data.latitude, 48117300)
            /\ (f[lon[1]] = <<"0", "1", "1", "3", "1", ".", "0", "0", "0">> /\ f[lon[2]] = <<"W">>)
                  => WithinTolerance(gps_data.longitude, 0 - 11516700)

\* the fix of the southern and western hemisphere has been parsed
C24_Witness ==
    /\ ParsedFix
    /\ Fields(LastSentence)[3] = <<"S">>
    /\ Fields(LastSentence)[5] = <<"W">>
    /\ gps_data.latitude < 0
    /\ gps_data.longitude = 0 - 11516666

\* the bits of the bytes, the most significant bit of every byte first
RECURSIVE MsbFirst(_)
MsbFirst(data) ==
    IF data = <<>>
       THEN <<>>
       ELSE LET b == Head(data)
            IN  <<(b \div 128) % 2, (b \div 64) % 2, (b \div 32) % 2, (b \div 16) % 2,
                  (b \div 8) % 2, (b \div 4) % 2, (b \div 2) % 2, b % 2>> \o MsbFirst(Tail(data))

\* x^12 + x^5 + 1, the terms of 0x1021: what the polynomial x^16 + x^12 +
\* x^5 + 1 leaves below its leading term
Poly1021 == <<0, 0, 0, 1, 0, 0, 0, 0, 0, 0, 1, 0, 0, 0, 0, 1>>

\* the remainder of the polynomial with these coefficients, highest first,
\* divided by x^16 + x^12 + x^5 + 1 over GF(2)
RECURSIVE Remainder(_)
Remainder(bits) ==
    IF Len(bits) <= 16
       THEN bits
       ELSE LET rest == Tail(bits)
            IN  IF Head(bits) = 0
                   THEN Remainder(rest)
                   ELSE Remainder(<<>> \o [j \in 1 .. 16 |-> (rest[j] + Poly1021[j]) % 2]
                                       \o SubSeq(rest, 17, Len(rest)))

RECURSIVE BitsValue(_)
BitsValue(bits) ==
    IF bits = <<>> THEN 0 ELSE 2 * BitsValue(SubSeq(bits, 1, Len(bits) - 1)) + bits[Len(bits)]

\* CRC-16/CCITT-FALSE as the algebra defines it: the message times x^16,
\* plus the initial register 0xFFFF times x^(number of message bits), reduced
\* by the polynomial; nothing is reflected and nothing is added at the end.
CcittFalse(data) ==
    LET shifted == MsbFirst(data) \o [j \in 1 .. 16 |-> 0]
        started == <<>> \o [j \in 1 .. Len(shifted) |-> IF j <= 16 THEN 1 - shifted[j] ELSE shifted[j]]
    IN  BitsValue(Remainder(started))

\* the bytes with bit k flipped, counting from the lowest bit of the first byte
FlipBit(data, k) == [data EXCEPT ![k \div 8 + 1] = Xor8(@, 2 ^ (k % 8))]

(***************************************************************************)
(* C25: crc16 is a deterministic function of its input bytes (CCITT-FALSE: *)
(* polynomial 0x1021, initial value 0xFFFF, MSB-first, no final XOR,       *)
(* result within 16 bits), and for every input and every single bit        *)
(* position of it, flipping that bit changes the computed code.            *)
(***************************************************************************)
C25_Crc16CcittFalse ==
    crc_ret # <<>> =>
        /\ crc_ret[1] \in 0 .. 65535
        /\ crc_ret[1] = CcittFalse(crc_arg)
        /\ crc_arg = CheckString => crc_ret[1] = 10673
        /\ \A k \in 0 .. 8 * Len(crc_arg) - 1 : Calculate_CRC16(FlipBit(crc_arg, k)) # crc_ret[1]

\* the check string has been coded, and its code is the catalogue's 0x29B1
C25_Witness == crc_arg = CheckString /\ crc_ret = <<10673>>

\* the fixes the sentences received can publish in the position store
PublishedFixes ==
    {GPS_ParseGPGGA(sentence[1], gps_data).current_gps_data : sentence \in ReceivedSentences}

(***************************************************************************)
(* C27: a reader of the position store never observes a partially-updated  *)
(* snapshot: GPS_GetPosition called from the acquisition task returns a    *)
(* snapshot whose fields all come from one single published fix, even when *)
(* the receive callback that parses and publishes a new fix preempts it in *)
(* the middle of its copy.                                                 *)
(***************************************************************************)
C27_SnapshotNeverTorn ==
    (position_pc = 0 /\ position_ret = <<STATUS_OK>>) =>
        /\ position_out.valid
        /\ position_out \in PublishedFixes

(***************************************************************************)
(* C28: "never fixed" is distinct from "fix expired":                      *)
(* GPS_GetTimeSinceLastFix returns the sentinel 0xFFFFFFFF if and only if  *)
(* no sentence has yielded a valid fix since initialisation; once a valid  *)
(* fix has been parsed it returns the time elapsed since that fix, and the *)
(* fix counts as expired only when that elapsed time exceeds the timeout.  *)
(* The position store is valid exactly when a sentence has yielded a fix   *)
(* since GPS_Init; the driver stamps a fix with the time 0 and reads the   *)
(* time 0, so that no time has elapsed since any fix.                      *)
(***************************************************************************)
C28_NeverFixedIsNotExpired ==
    /\ (GPS_GetTimeSinceLastFix = UINT32_MOD - 1) <=> ~current_gps_data.valid
    /\ current_gps_data.valid => GPS_GetTimeSinceLastFix = 0
    /\ (current_gps_data.valid /\ current_gps_data.satellites >= GPS_MIN_SATELLITES)
          => GPS_IsHealthy

\* the acquisition task stands before its push, or is inside it
AtPush == acq_pc = "push"

(***************************************************************************)
(* C26: every record the acquisition task pushes carries an integrity code *)
(* equal to crc16 of all its preceding bytes as they are at the moment of  *)
(* the push: no field of the record is written between computing the code  *)
(* and pushing it.                                                         *)
(***************************************************************************)
C26_PushedCodeIsFresh ==
    AtPush =>
        \A bytes \in {RecordBytes(record)} :
            /\ Len(bytes) = 28
            /\ record.crc16 = Calculate_CRC16(bytes)
            /\ pc["acq"] # "idle" => loc["acq"].rec = [body |-> bytes, crc16 |-> record.crc16]

\* a record with a position and a low battery is being pushed
C26_Witness ==
    /\ AtPush
    /\ pc["acq"] = "push_copy_crc"
    /\ record.flags = FLAG_GPS_VALID + FLAG_ADC_VALID + FLAG_LOW_BATTERY
    /\ record.latitude < 0
    /\ loc["acq"].rec.crc16 = record.crc16

(***************************************************************************)
(* C29: at most one listener is invoked per event: a received CAN frame    *)
(* invokes at most one registered RX callback even when several are        *)
(* registered for its identifier, a parsed fix invokes at most the single  *)
(* registered GPS data callback, and each wake source has at most one      *)
(* registered callback (a later registration for the same source replaces  *)
(* the earlier one).                                                       *)
(***************************************************************************)
C29_OneListenerPerEvent ==
    /\ Len(can_invoked) <= 1
    /\ \A k \in 1 .. Len(can_invoked) :
          \E i \in 0 .. callback_count - 1 : rx_callbacks[i] = can_invoked[k]
    /\ Len(published) <= 1
    /\ (pm_ret.op = "register_wake_source" /\ pm_ret.status = STATUS_OK)
          => wake_callbacks[pm_ret.source] = pm_ret.callback

\* two RX callbacks are registered for one identifier and a frame with it has
\* invoked the first; a second wake callback has replaced the first; a fix
\* has been handed to the GPS data callback
C29_Witness ==
    /\ callback_count = 2
    /\ filter_ids[0] = filter_ids[1]
    /\ rx_callbacks[0] # rx_callbacks[1]
    /\ can_invoked = <<rx_callbacks[0]>>
    /\ Len(published) = 1
    /\ pm_pre.last.callback = "OnWake"
    /\ pm_pre.last.status = STATUS_OK
    /\ wake_callbacks[0] = "OnMotion"

(***************************************************************************)
(* C30: with one producer and one consumer interleaved at the level of     *)
(* individual atomic operations and record copies, every record returned   *)
(* by pop / pop_batch is equal in all fields to one record that was pushed *)
(* (never a mix of two records, so its integrity code matches its          *)
(* contents), no pushed record is returned twice, and records are returned *)
(* in push order.                                                          *)
(***************************************************************************)
C30_PoppedArePushedOnceInOrder ==
    /\ \A k \in 1 .. Len(popped) :
          /\ popped[k].body \in 1 .. pushes
          /\ popped[k].crc16 = Calculate_CRC16(<<popped[k].body>>)
    /\ \A j, k \in 1 .. Len(popped) : j < k => popped[j].body < popped[k].body

(***************************************************************************)
(* C31: whenever no buffer operation is in flight, write_index < N,        *)
(* read_index < N and write_index = (read_index + count) mod N; this holds *)
(* after any interleaving of one producer's pushes (including the eviction *)
(* path) with one consumer's pops, once both have returned.                *)
(***************************************************************************)
C31_IndicesAgreeAtRest ==
    (\A t \in Tasks : pc[t] = "idle") =>
        /\ write_index < TELEMETRY_BUFFER_SIZE
        /\ read_index < TELEMETRY_BUFFER_SIZE
        /\ write_index = (read_index + count) % TELEMETRY_BUFFER_SIZE

(***************************************************************************)
(* C32: at any point where no transition is in progress, the three dwell   *)
(* times reported by Power_GetStatistics sum to the time elapsed since     *)
(* Power_Init, the figure of the current mode includes the still-open      *)
(* interval since mode entry, and the other two are the stored cumulative  *)
(* values.  (The call leaves every static of the power manager alone by    *)
(* the UNCHANGED of Power_GetStatistics.)                                  *)
(***************************************************************************)
C32_StatisticsAtRestAddUp ==
    (power_initialized /\ stats_out.during = "idle") =>
        stats_out.active_time_ms + stats_out.idle_time_ms + stats_out.sleep_time_ms
            = stats_out.at

\* the statements of Power_SetMode that follow its two early returns, in the
\* order of power_manager.c:99-123
SetModeOrder ==
    <<"sm_add_dwell", "sm_update_energy", "sm_apply_can", "sm_apply_gps",
      "sm_wake_sources", "sm_store_previous", "sm_store_current", "sm_store_entry_time">>

\* where in SetModeOrder the driving task stands; 0 between calls
SetModeAt(label) ==
    IF \E i \in DOMAIN SetModeOrder : SetModeOrder[i] = label
       THEN CHOOSE i \in DOMAIN SetModeOrder : SetModeOrder[i] = label
       ELSE 0

\* the statics the first two statements settle
Settled == <<time_active_ms, time_idle_ms, time_sleep_ms, cumulative_energy_mah,
             last_energy_update_time>>

(***************************************************************************)
(* C33: within a transition the steps occur in the order: settle the dwell *)
(* time of the old mode, settle the energy at the old mode's current draw, *)
(* apply the new mode's peripheral vector, reconfigure the wake sources,   *)
(* and only then change previous_mode, current_mode and the mode-entry     *)
(* timestamp; Power_SetMode called before Power_Init returns               *)
(* STATUS_NOT_INITIALIZED and performs none of these steps.                *)
(***************************************************************************)
C33_TransitionStepsInOrder ==
    [][/\ SetModeAt(pm_pc) > 0 =>
             \* one statement after the other, the return after the last
             /\ SetModeAt(pm_pc') = (SetModeAt(pm_pc) + 1) % (Len(SetModeOrder) + 1)
             \* the dwell time and the energy are settled by the first two
             \* statements, in the old mode
             /\ Settled' # Settled =>
                   /\ SetModeAt(pm_pc) <= SetModeAt("sm_update_energy")
                   /\ current_mode = pm_pre.now.current_mode
             \* the peripherals are told after both, and before the wake sources
             /\ invoked' # invoked =>
                   /\ SetModeAt(pm_pc) \in SetModeAt("sm_apply_can") .. SetModeAt("sm_apply_gps")
                   /\ SetModeAt(pm_pc) = SetModeAt("sm_update_energy") + 1 + Len(invoked)
                   /\ Len(invoked') = Len(invoked) + 1
             \* nothing of the mode is changed up to the wake sources, when
             \* both peripherals have been told
             /\ <<previous_mode, current_mode, mode_entry_time>>'
                     # <<previous_mode, current_mode, mode_entry_time>> =>
                   /\ SetModeAt(pm_pc) > SetModeAt("sm_wake_sources")
                   /\ Len(invoked) = 2
             /\ SetModeAt(pm_pc) <= SetModeAt("sm_wake_sources") =>
                   /\ previous_mode = pm_pre.now.previous_mode
                   /\ current_mode = pm_pre.now.current_mode
                   /\ mode_entry_time = pm_pre.now.mode_entry_time
             /\ previous_mode' # previous_mode => previous_mode' = pm_pre.now.current_mode
             /\ current_mode' # current_mode => current_mode' = pm_loc.mode
       /\ (pm_pc = "idle" /\ ~power_initialized /\ pm_ret'.op = "set_mode") =>
             /\ pm_pc' = "idle"
             /\ pm_ret'.status = STATUS_NOT_INITIALIZED
             /\ UNCHANGED <<pmStatics, applied>>
             /\ invoked' = <<>>
      ]_vars

\* Power_SetMode has returned from a transition whose every statement ran.
C33_Witness ==
    /\ Transitioned
    /\ Len(invoked) = 2
    /\ previous_mode = pm_pre.now.current_mode
    /\ current_mode = pm_ret.mode
    /\ pm_ret.mode = POWER_MODE_DEEP_SLEEP

(***************************************************************************)
(* C34: current_mode is in every reachable state one of POWER_MODE_ACTIVE, *)
(* POWER_MODE_IDLE, POWER_MODE_DEEP_SLEEP, and Power_SetMode never reads   *)
(* peripheral_configs outside its three entries, whatever target value it  *)
(* is called with.                                                         *)
(***************************************************************************)
C34_ModeAndTableIndexInRange ==
    /\ current_mode \in PowerModes
    /\ pm_pc \in {"sm_apply_can", "sm_apply_gps"} => pm_loc.mode \in DOMAIN peripheral_configs

(***************************************************************************)
(* C35: when GPS_ParseNMEA returns STATUS_ERROR (bad envelope, checksum    *)
(* mismatch, unsupported type, or fewer than 10 fields), nothing is        *)
(* modified: the caller's GPSData_t, current_gps_data, gps_has_fix and     *)
(* last_fix_timestamp keep their previous values and no callback is        *)
(* invoked.                                                                *)
(***************************************************************************)
C35_ErrorModifiesNothing ==
    [][nmea_ret' = STATUS_ERROR =>
          /\ UNCHANGED <<gps_data, current_gps_data, gps_has_fix, last_fix_timestamp>>
          /\ published' = <<>>]_vars

\* A sentence of eight fields was refused with a fix stored and a callback
\* registered.
C35_Witness ==
    /\ nmea_ret = STATUS_ERROR
    /\ nmea_arg.sentence # NullSentence
    /\ HasEnvelope(nmea_arg.sentence[1])
    /\ ~ChecksumFailed(nmea_arg.sentence[1])
    /\ IsGga(nmea_arg.sentence[1])
    /\ gps_has_fix
    /\ gps_data.valid
    /\ current_gps_data.valid
    /\ data_callback # NULL

(***************************************************************************)
(* C36: after GPS_RegisterCallback(cb), every sentence that is parsed to a *)
(* valid fix, of the position-fix family or of the recommended-minimum     *)
(* family, publishes the fix to current_gps_data and invokes cb exactly    *)
(* once, and sentences that are rejected or report no fix never invoke cb. *)
(* (A step that leaves data_callback alone is a call of GPS_ParseNMEA.)    *)
(***************************************************************************)
C36_ValidFixPublishedAndNotified ==
    [][(/\ data_callback' = data_callback
        /\ data_callback # NULL
        /\ nmea_arg'.sentence # NullSentence
        /\ nmea_arg'.data)
       => IF nmea_ret' = STATUS_OK /\ gps_data'.valid
             THEN /\ current_gps_data' = gps_data'
                  /\ published' = <<gps_data'>>
             ELSE published' = <<>>]_vars

(***************************************************************************)
(* C37: after any sequence of parsed sentences, GPS_GetPosition returns    *)
(* STATUS_OK if and only if GPS_HasValidFix returns true: the validity     *)
(* flag of current_gps_data and gps_has_fix always agree, including after  *)
(* a no-fix sentence follows a valid fix.                                  *)
(***************************************************************************)
C37_PositionOkIffHasValidFix ==
    /\ (gps_initialized /\ current_gps_data.valid) <=> GPS_HasValidFix
    /\ current_gps_data.valid <=> gps_has_fix

(***************************************************************************)
(* C38: a valid recommended-minimum sentence received through              *)
(* GPS_UARTCallback changes only latitude, longitude, timestamp and valid  *)
(* of current_gps_data; altitude, satellites, fix_quality and hdop keep    *)
(* the values published by the last valid position-fix sentence.           *)
(***************************************************************************)
C38_RmcKeepsFixFields ==
    [][(/\ uart_rx'.byte = "\n"
        /\ nmea_ret' = STATUS_OK
        /\ IsRmc(nmea_arg'.sentence[1])
        /\ gps_data'.valid)
       => /\ current_gps_data'.altitude = current_gps_data.altitude
          /\ current_gps_data'.satellites = current_gps_data.satellites
          /\ current_gps_data'.fix_quality = current_gps_data.fix_quality
          /\ current_gps_data'.hdop = current_gps_data.hdop]_vars

\* nmea_buffer begins with '$' when the newline arrives
BeginsWithDollar == nmea_buffer # <<>> /\ nmea_buffer[1] = "$"

(***************************************************************************)
(* C39: for every sequence of received bytes, whenever GPS_UARTCallback    *)
(* hands the parser a buffer that begins with '$', that buffer is exactly  *)
(* the bytes received from the most recent '$' up to, not including, the   *)
(* terminating newline; a sentence longer than the 127 characters the      *)
(* buffer holds is never parsed as a truncated or spliced sentence, and    *)
(* nmea_index stays within 0 .. 127, so that every write lands inside      *)
(* nmea_buffer.                                                            *)
(***************************************************************************)
C39_BufferIsTheSentenceReceived ==
    [][/\ nmea_index' \in 0 .. NMEA_BUFFER_SIZE - 1
       /\ nmea_index' = Len(nmea_buffer')
       /\ uart_rx'.byte = "\n" =>
             /\ BeginsWithDollar => nmea_buffer = uart_rx.since
             /\ Len(uart_rx.since) > NMEA_BUFFER_SIZE - 1 =>
                   /\ ~BeginsWithDollar
                   /\ nmea_ret' = STATUS_ERROR
                   /\ UNCHANGED <<current_gps_data, gps_has_fix>>
                   /\ published' = <<>>]_vars

\* The sentence of 135 characters has been received to its end: the parser
\* was handed what followed the character that found the buffer full, and
\* refused it.
C39_Witness ==
    /\ uart_rx.byte = "\n"
    /\ uart_tx.line = 0
    /\ nmea_index = 0
    /\ nmea_arg.sentence =
          <<SubSeq(UartLines[3], NMEA_BUFFER_SIZE + 1, Len(UartLines[3]) - 1)>>
    /\ nmea_ret = STATUS_ERROR

====
